---------------------------- MODULE Spec2Model ----------------------------
(***************************************************************************)
(* Model of the kyzu native viewer: the spherical camera                   *)
(* (camera/spherical.rs), the per-frame input state (input/mod.rs), the    *)
(* input-to-camera mapping (input/camera_control.rs), the renderer         *)
(* (renderer/core.rs, depth.rs, debug.rs, grid.rs, gui.rs) and the winit   *)
(* application handler that drives them (app.rs).                          *)
(*                                                                         *)
(* Numbers.  The program computes in f32.  An f32 is carried here as its   *)
(* IEEE-754 binary32 bit pattern with the sign bit turned into the sign of *)
(* the integer: the value with bits b (sign bit clear) is the integer b,   *)
(* its negation is -b.  The order of the finite values and the infinities  *)
(* is then the order of the integers.  There is one NaN.  The two zeros    *)
(* are one value (the program never divides by a negative zero).           *)
(* Arithmetic rounds to nearest, ties to even, as the hardware does.       *)
(***************************************************************************)
EXTENDS Integers, Sequences, FiniteSets, TLC

(***************************************************************************)
(* f32 arithmetic                                                          *)
(***************************************************************************)
ManBits == 20 + 3
Hidden == 2 ^ ManBits
Inf == 255 * Hidden
NaN == Inf + 2 ^ (ManBits - 1)

F32IsNaN(a) == a = NaN
F32IsInf(a) == a = Inf \/ a = -Inf
F32IsFinite(a) == a # NaN /\ a < Inf /\ a > -Inf

Abs(n) == IF n < 0 THEN -n ELSE n
Sign(a) == IF a < 0 THEN -1 ELSE 1

\* 2^n for the shifts used below; 0 stands for a shift that clears a 31-bit word
Pow2(n) == IF n > 30 THEN 0 ELSE 2 ^ n

\* number of bits of n, 0 <= n < 2^31
BitLen(n) ==
  IF n >= 2 ^ 30 THEN 31
  ELSE CHOOSE l \in 0..30 : n < 2 ^ l /\ (l = 0 \/ n >= 2 ^ (l - 1))

\* a finite non-zero f32 as significand * 2^exponent, the significand
\* normalised to 24 bits (a subnormal is shifted up)
RawSig(a) == IF Abs(a) \div Hidden = 0 THEN Abs(a) % Hidden
             ELSE Hidden + (Abs(a) % Hidden)
RawExp(a) == IF Abs(a) \div Hidden = 0 THEN -149 ELSE (Abs(a) \div Hidden) - 150
NormShift(a) == 24 - BitLen(RawSig(a))
Sig(a) == RawSig(a) * 2 ^ NormShift(a)
Exp(a) == RawExp(a) - NormShift(a)

\* rounding of sig * 2^e, sig of len bits: the number of low bits dropped
\* (24 bits are kept, fewer below the smallest normal number)
RoundShift(e, len) == IF e + len - 1 >= -126 THEN len - 24 ELSE -149 - e
Quot(sig, sh) == IF Pow2(sh) = 0 THEN 0 ELSE sig \div Pow2(sh)
Rem(sig, sh) == IF Pow2(sh) = 0 THEN sig ELSE sig % Pow2(sh)
\* ties go to the even significand; sticky tells of bits below sig
RoundsUp(sig, sh, sticky) ==
  /\ sh < 31
  /\ \/ Rem(sig, sh) > 2 ^ (sh - 1)
     \/ Rem(sig, sh) = 2 ^ (sh - 1) /\ (sticky \/ Quot(sig, sh) % 2 = 1)
Rounded(sig, sh, sticky) ==
  IF sh <= 0 THEN sig * 2 ^ (-sh)
  ELSE Quot(sig, sh) + (IF RoundsUp(sig, sh, sticky) THEN 1 ELSE 0)
\* the bits of sign * q * 2^(be - 150); q = 2^24 carries into the exponent
Pack(sign, q, be, normal) ==
  IF ~normal THEN sign * q
  ELSE IF be > 254 THEN sign * Inf
  ELSE sign * ((be - 1) * Hidden + q)

\* the f32 nearest to sign * (sig + sticky fraction) * 2^e, ties to even.
\* sig < 2^31; when sticky is set sig has at least 26 bits.
RoundPack(sign, sig, e, sticky) ==
  IF sig = 0 THEN 0
  ELSE Pack(sign,
            Rounded(sig, RoundShift(e, BitLen(sig)), sticky),
            e + RoundShift(e, BitLen(sig)) + 150,
            e + BitLen(sig) - 1 >= -126)

\* u32 as f32 (n < 2^31)
F32FromInt(n) == RoundPack(Sign(n), Abs(n), 0, FALSE)

F32Neg(a) == IF a = NaN THEN NaN ELSE -a

\* the 48-bit product of two 24-bit significands as << high 24 bits, low 24 bits >>,
\* from the products of their 12-bit halves
MulCarry(h, t) == << h + t \div (2 ^ 24), t % (2 ^ 24) >>
MulCombine(hh, mid, ll) == MulCarry(hh + mid \div 4096, ll + (mid % 4096) * 4096)
MulWide(x, y) ==
  MulCombine((x \div 4096) * (y \div 4096),
             (x \div 4096) * (y % 4096) + (x % 4096) * (y \div 4096),
             (x % 4096) * (y % 4096))
\* round the top 30 bits of the product, the rest is sticky
MulRound(sign, p, e) ==
  RoundPack(sign, p[1] * 64 + p[2] \div (2 ^ 18), e, p[2] % (2 ^ 18) # 0)

F32Mul(a, b) ==
  IF a = NaN \/ b = NaN THEN NaN
  ELSE IF F32IsInf(a) \/ F32IsInf(b)
    THEN IF a = 0 \/ b = 0 THEN NaN ELSE Sign(a) * Sign(b) * Inf
  ELSE IF a = 0 \/ b = 0 THEN 0
  ELSE MulRound(Sign(a) * Sign(b), MulWide(Sig(a), Sig(b)), Exp(a) + Exp(b) + 18)

\* x + y where x has the larger exponent, by d; x is given 6 guard bits and
\* what of y falls below them is sticky (unit = 2^(d - 6), 0 when that is
\* all of y)
AddMag(x, big, yq, yr, same) ==
  RoundPack(Sign(x),
            IF same THEN big + yq ELSE IF yr = 0 THEN big - yq ELSE big - yq - 1,
            RawExp(x) - 6, yr # 0)
AddSticky(x, y, unit) ==
  AddMag(x, RawSig(x) * 64,
         IF unit = 0 THEN 0 ELSE RawSig(y) \div unit,
         IF unit = 0 THEN RawSig(y) ELSE RawSig(y) % unit,
         Sign(x) = Sign(y))
AddExact(s, e) == RoundPack(Sign(s), Abs(s), e, FALSE)
AddAligned(x, y, d) ==
  IF d <= 6
  THEN AddExact(Sign(x) * RawSig(x) * 2 ^ d + Sign(y) * RawSig(y), RawExp(y))
  ELSE AddSticky(x, y, IF d - 6 > 25 THEN 0 ELSE 2 ^ (d - 6))
AddOrdered(x, y) == AddAligned(x, y, RawExp(x) - RawExp(y))

F32Add(a, b) ==
  IF a = NaN \/ b = NaN THEN NaN
  ELSE IF F32IsInf(a) THEN (IF b = -a THEN NaN ELSE a)
  ELSE IF F32IsInf(b) THEN b
  ELSE IF a = 0 THEN b
  ELSE IF b = 0 THEN a
  ELSE IF RawExp(a) < RawExp(b) THEN AddOrdered(b, a)
  ELSE AddOrdered(a, b)

F32Sub(a, b) == F32Add(a, F32Neg(b))

\* long division, 7 bits of the quotient per step: << quotient, remainder >>
RECURSIVE DivDigits(_, _, _, _)
DivDigits(r, sb, steps, q) ==
  IF steps = 0 THEN << q, r >>
  ELSE DivDigits((r * 128) % sb, sb, steps - 1, q * 128 + (r * 128) \div sb)
DivRound(sign, qr, e) == RoundPack(sign, qr[1], e, qr[2] # 0)

F32Div(a, b) ==
  IF a = NaN \/ b = NaN THEN NaN
  ELSE IF F32IsInf(a) THEN (IF F32IsInf(b) THEN NaN ELSE Sign(a) * Sign(b) * Inf)
  ELSE IF F32IsInf(b) THEN 0
  ELSE IF b = 0 THEN (IF a = 0 THEN NaN ELSE Sign(a) * Inf)
  ELSE IF a = 0 THEN 0
  ELSE DivRound(Sign(a) * Sign(b),
                DivDigits(Sig(a) % Sig(b), Sig(b), 4, Sig(a) \div Sig(b)),
                Exp(a) - Exp(b) - 28)

\* comparisons: every comparison with a NaN is false
F32Lt(a, b) == a # NaN /\ b # NaN /\ a < b
F32Gt(a, b) == a # NaN /\ b # NaN /\ a > b
F32Le(a, b) == a # NaN /\ b # NaN /\ a <= b
F32Eq(a, b) == a # NaN /\ b # NaN /\ a = b

\* square root, correctly rounded: the root is developed bit by bit, two
\* bits of the radicand per step (pairs holds the radicand's remaining pairs)
RECURSIVE SqrtBits(_, _, _, _)
SqrtBits(pairs, steps, root, rem) ==
  IF steps = 0 THEN <<root, rem>>
  ELSE LET top == IF pairs = <<>> THEN 0 ELSE Head(pairs)
           rest == IF pairs = <<>> THEN <<>> ELSE Tail(pairs)
           r == rem * 4 + top
           trial == root * 4 + 1
       IN  IF r >= trial THEN SqrtBits(rest, steps - 1, root * 2 + 1, r - trial)
           ELSE SqrtBits(rest, steps - 1, root * 2, r)

\* the 13 base-4 digits of a 26-bit number, most significant first
Pairs26(n) == [i \in 1..13 |-> (n \div (4 ^ (13 - i))) % 4]
SqrtRound(res, e) == RoundPack(1, res[1], (e \div 2) - 14, res[2] # 0)

F32Sqrt(a) ==
  IF a = NaN \/ a < 0 THEN NaN
  ELSE IF a = Inf \/ a = 0 THEN a
  ELSE IF Exp(a) % 2 # 0
    THEN SqrtRound(SqrtBits(Pairs26(Sig(a) * 2), 27, 0, 0), Exp(a) - 1)
  ELSE SqrtRound(SqrtBits(Pairs26(Sig(a)), 27, 0, 0), Exp(a))

\* f32::clamp of the standard library: a NaN passes through unchanged
F32Clamp(value, min, max) ==
  LET low == IF F32Lt(value, min) THEN min ELSE value
  IN  IF F32Gt(low, max) THEN max ELSE low

\* f32::max of the standard library: the other operand if one is a NaN
F32Max(a, b) == IF a = NaN THEN b ELSE IF b = NaN THEN a ELSE IF a > b THEN a ELSE b

\* a decimal literal n/d of the source as the nearest f32
Dec(n, d) == F32Div(F32FromInt(n), F32FromInt(d))

(***************************************************************************)
(* Vec3 of glam: a triple of f32                                           *)
(***************************************************************************)
V3(a, b, c) == <<a, b, c>>
V3Zero == V3(0, 0, 0)
V3Z == V3(0, 0, F32FromInt(1))
V3Add(u, v) == V3(F32Add(u[1], v[1]), F32Add(u[2], v[2]), F32Add(u[3], v[3]))
V3Sub(u, v) == V3(F32Sub(u[1], v[1]), F32Sub(u[2], v[2]), F32Sub(u[3], v[3]))
V3Scale(u, k) == V3(F32Mul(u[1], k), F32Mul(u[2], k), F32Mul(u[3], k))
V3Dot(u, v) ==
  F32Add(F32Add(F32Mul(u[1], v[1]), F32Mul(u[2], v[2])), F32Mul(u[3], v[3]))
V3Cross(u, v) ==
  V3(F32Sub(F32Mul(u[2], v[3]), F32Mul(v[2], u[3])),
     F32Sub(F32Mul(u[3], v[1]), F32Mul(v[3], u[1])),
     F32Sub(F32Mul(u[1], v[2]), F32Mul(v[1], u[2])))
V3Length(u) == F32Sqrt(V3Dot(u, u))
V3Normalize(u) == V3Scale(u, F32Div(F32FromInt(1), V3Length(u)))

(***************************************************************************)
(* f32::sin and f32::cos, tabulated: (angle, sine, cosine) as the build's  *)
(* sinf and cosf return them, which is not always the nearest f32.  The    *)
(* table holds every angle the specifications reach and a few round ones;  *)
(* an angle outside it has no value here and stops the evaluation.         *)
(***************************************************************************)
TrigTable == {
  <<-1079133175, 1041416186, -1065180038>>, <<-1078530011, 867941678, -1065353216>>,
  <<-1078294314, -1030098215, -1065326733>>, <<-1077874884, -1042238241, -1065148978>>,
  <<-1077455453, -1048690122, -1064805629>>, <<-1077036023, -1051888160, -1064300121>>,
  <<-1077036022, -1051888167, -1064300120>>, <<-1076616593, -1054969287, -1063637503>>,
  <<-1076616592, -1054969294, -1063637501>>, <<-1076197162, -1057433667, -1062824393>>,
  <<-1076197161, -1057433670, -1062824391>>, <<-1075777732, -1058811880, -1061868921>>,
  <<-1075777731, -1058811883, -1061868918>>, <<-1075358302, -1060087820, -1060780630>>,
  <<-1075358301, -1060087823, -1060780627>>, <<-1075358300, -1060087826, -1060780624>>,
  <<-1074938871, -1061248740, -1059570391>>, <<-1074938870, -1061248743, -1059570388>>,
  <<-1074519441, -1062283036, -1058250303>>, <<-1074519440, -1062283038, -1058250300>>,
  <<-1074100011, -1063180376, -1056702498>>, <<-1074100010, -1063180378, -1056702491>>,
  <<-1074100009, -1063180380, -1056702485>>, <<-1073619336, -1063931795, -1053703978>>,
  <<-1073619335, -1063931796, -1053703974>>, <<-1073619334, -1063931797, -1053703971>>,
  <<-1072780476, -1064529783, -1050570411>>, <<-1072780474, -1064529785, -1050570404>>,
  <<-1072780473, -1064529785, -1050570400>>, <<-1071941614, -1064968368, -1046090187>>,
  <<-1071941613, -1064968368, -1046090179>>, <<-1071941612, -1064968368, -1046090171>>,
  <<-1071102754, -1065243164, -1038758151>>, <<-1071102753, -1065243164, -1038758135>>,
  <<-1071102752, -1065243164, -1038758119>>, <<-1070263894, -1065351427, -1013922690>>,
  <<-1070263893, -1065351427, -1013922562>>, <<-1070263892, -1065351427, -1013922434>>,
  <<-1070263891, -1065351427, -1013922306>>, <<-1070263890, -1065351428, -1013922178>>,
  <<-1070141403, -1065353216, -859553070>>, <<-1069425032, -1065292077, 1034858180>>,
  <<-1069425031, -1065292076, 1034858196>>, <<-1069425030, -1065292076, 1034858211>>,
  <<-1068586172, -1065065704, 1044169475>>, <<-1068586171, -1065065704, 1044169483>>,
  <<-1068586170, -1065065704, 1044169491>>, <<-1068586169, -1065065703, 1044169499>>,
  <<-1067747311, -1064674572, 1049634285>>, <<-1067747310, -1064674572, 1049634288>>,
  <<-1067747309, -1064674571, 1049634292>>, <<-1067747308, -1064674571, 1049634296>>,
  <<-1066908450, -1064122589, 1052801441>>, <<-1066908449, -1064122588, 1052801445>>,
  <<-1066908448, -1064122587, 1052801449>>, <<-1066069590, -1063415269, 1055842559>>,
  <<-1066069589, -1063415268, 1055842562>>, <<-1066069588, -1063415267, 1055842566>>,
  <<-1066069587, -1063415267, 1055842569>>, <<-1066069586, -1063415266, 1055842573>>,
  <<-1065353216, -1062693540, 1057640768>>, <<-1065108241, -1062559680, 1057845934>>,
  <<-1065108240, -1062559679, 1057845935>>, <<-1065108239, -1062559679, 1057845936>>,
  <<-1065108238, -1062559678, 1057845937>>, <<-1065108237, -1062559677, 1057845938>>,
  <<-1065108236, -1062559677, 1057845938>>, <<-1063430520, -1061564371, 1059195661>>,
  <<-1063430519, -1061564370, 1059195662>>, <<-1063430518, -1061564369, 1059195663>>,
  <<-1063430517, -1061564369, 1059195664>>, <<-1063430516, -1061564368, 1059195664>>,
  <<-1063430515, -1061564368, 1059195665>>, <<-1061836681, -1060498451, 1060379819>>,
  <<-1061752798, -1060439286, 1060439281>>, <<-1061752797, -1060439285, 1060439281>>,
  <<-1061752796, -1060439284, 1060439282>>, <<-1061752795, -1060439283, 1060439283>>,
  <<-1061752794, -1060439283, 1060439284>>, <<-1061752793, -1060439282, 1060439284>>,
  <<-1061752792, -1060439281, 1060439285>>, <<-1060075077, -1059195667, 1061564366>>,
  <<-1060075076, -1059195666, 1061564366>>, <<-1060075075, -1059195666, 1061564367>>,
  <<-1060075074, -1059195665, 1061564368>>, <<-1060075073, -1059195664, 1061564368>>,
  <<-1060075072, -1059195663, 1061564369>>, <<-1058397356, -1057845941, 1062559675>>,
  <<-1058397354, -1057845939, 1062559676>>, <<-1058397353, -1057845938, 1062559677>>,
  <<-1058397352, -1057845937, 1062559678>>, <<-1058397351, -1057845936, 1062559678>>,
  <<-1058397350, -1057845936, 1062559679>>, <<-1057360530, -1056964608, 1063105495>>,
  <<-1056964608, -1056274244, 1063299392>>, <<-1056474658, -1055842572, 1063415266>>,
  <<-1056474657, -1055842572, 1063415266>>, <<-1056474656, -1055842571, 1063415266>>,
  <<-1056474655, -1055842570, 1063415266>>, <<-1056474654, -1055842569, 1063415267>>,
  <<-1056474653, -1055842568, 1063415267>>, <<-1056474652, -1055842567, 1063415267>>,
  <<-1056474651, -1055842566, 1063415267>>, <<-1056474650, -1055842565, 1063415268>>,
  <<-1056474649, -1055842564, 1063415268>>, <<-1056474648, -1055842564, 1063415268>>,
  <<-1053119216, -1052801454, 1064122586>>, <<-1053119215, -1052801453, 1064122586>>,
  <<-1053119214, -1052801452, 1064122586>>, <<-1053119213, -1052801451, 1064122587>>,
  <<-1053119212, -1052801450, 1064122587>>, <<-1053119211, -1052801449, 1064122587>>,
  <<-1053119210, -1052801448, 1064122587>>, <<-1053119209, -1052801447, 1064122587>>,
  <<-1053119208, -1052801446, 1064122588>>, <<-1053119207, -1052801445, 1064122588>>,
  <<-1053119206, -1052801444, 1064122588>>, <<-1049763772, -1049634298, 1064674570>>,
  <<-1049763771, -1049634297, 1064674571>>, <<-1049763770, -1049634296, 1064674571>>,
  <<-1049763769, -1049634295, 1064674571>>, <<-1049763768, -1049634294, 1064674571>>,
  <<-1049763767, -1049634293, 1064674571>>, <<-1049763766, -1049634292, 1064674571>>,
  <<-1049763765, -1049634291, 1064674571>>, <<-1049763764, -1049634290, 1064674572>>,
  <<-1044240658, -1044169504, 1065065703>>, <<-1044240656, -1044169502, 1065065703>>,
  <<-1044240654, -1044169500, 1065065703>>, <<-1044240652, -1044169498, 1065065703>>,
  <<-1044240650, -1044169496, 1065065703>>, <<-1044240648, -1044169494, 1065065704>>,
  <<-1044240646, -1044169492, 1065065704>>, <<-1044240644, -1044169490, 1065065704>>,
  <<-1044240642, -1044169488, 1065065704>>, <<-1044240640, -1044169486, 1065065704>>,
  <<-1036831949, -1036809591, 1065269400>>, <<-1034872152, -1034858225, 1065292076>>,
  <<-1034872144, -1034858217, 1065292076>>, <<-1034872140, -1034858213, 1065292076>>,
  <<-1034872136, -1034858209, 1065292076>>, <<-1034872132, -1034858205, 1065292076>>,
  <<-1034872128, -1034858201, 1065292076>>, <<-1034872127, -1034858200, 1065292076>>,
  <<-1034872124, -1034858197, 1065292076>>, <<-1034872123, -1034858196, 1065292076>>,
  <<-1034872120, -1034858193, 1065292076>>, <<0, 0, 1065353216>>,
  <<1008981770, 1008981591, 1065352377>>, <<1013922752, 1013922195, 1065351428>>,
  <<1013922784, 1013922227, 1065351428>>, <<1013922816, 1013922259, 1065351427>>,
  <<1013922848, 1013922291, 1065351427>>, <<1013922880, 1013922323, 1065351427>>,
  <<1013922912, 1013922355, 1065351427>>, <<1013922928, 1013922371, 1065351427>>,
  <<1013922944, 1013922387, 1065351427>>, <<1013922960, 1013922403, 1065351427>>,
  <<1013922976, 1013922419, 1065351427>>, <<1013922984, 1013922427, 1065351427>>,
  <<1013923008, 1013922451, 1065351427>>, <<1019302480, 1019301304, 1065348545>>,
  <<1036831949, 1036809591, 1065269400>>, <<1038174124, 1038144368, 1065251816>>,
  <<1038174125, 1038144369, 1065251816>>, <<1038791748, 1038758101, 1065243164>>,
  <<1038791752, 1038758105, 1065243164>>, <<1038791756, 1038758109, 1065243164>>,
  <<1038791760, 1038758113, 1065243164>>, <<1038791764, 1038758117, 1065243164>>,
  <<1038791768, 1038758121, 1065243164>>, <<1038791771, 1038758124, 1065243164>>,
  <<1038791772, 1038758125, 1065243164>>, <<1038791775, 1038758128, 1065243164>>,
  <<1038791776, 1038758129, 1065243164>>, <<1038791777, 1038758130, 1065243164>>,
  <<1038791778, 1038758131, 1065243164>>, <<1038791780, 1038758133, 1065243164>>,
  <<1039999328, 1039957122, 1065225229>>, <<1045891644, 1045788290, 1064984636>>,
  <<1046200460, 1046090172, 1064968368>>, <<1046200462, 1046090174, 1064968368>>,
  <<1046200464, 1046090176, 1064968368>>, <<1046200466, 1046090178, 1064968368>>,
  <<1046200468, 1046090180, 1064968368>>, <<1046200470, 1046090182, 1064968368>>,
  <<1046200472, 1046090184, 1064968368>>, <<1046804246, 1046679522, 1064935560>>,
  <<1048911544, 1048813584, 1064789333>>, <<1050589265, 1050423460, 1064553506>>,
  <<1050743672, 1050570399, 1064529785>>, <<1050743673, 1050570399, 1064529785>>,
  <<1050743674, 1050570400, 1064529785>>, <<1050743675, 1050570401, 1064529785>>,
  <<1050743676, 1050570402, 1064529785>>, <<1050743677, 1050570403, 1064529785>>,
  <<1050743678, 1050570404, 1064529785>>, <<1050743680, 1050570406, 1064529784>>,
  <<1051045566, 1050857051, 1064482432>>, <<1053944708, 1053562501, 1063962734>>,
  <<1054099118, 1053703971, 1063931797>>, <<1054099119, 1053703972, 1063931797>>,
  <<1054099120, 1053703973, 1063931797>>, <<1054099121, 1053703974, 1063931796>>,
  <<1054099122, 1053703975, 1063931796>>, <<1054401009, 1053979734, 1063870372>>,
  <<1056964608, 1056274244, 1063299392>>, <<1057132380, 1056567902, 1063218223>>,
  <<1057209584, 1056702487, 1063180379>>, <<1057209585, 1056702488, 1063180379>>,
  <<1057209586, 1056702490, 1063180378>>, <<1057209587, 1056702492, 1063180378>>,
  <<1057360530, 1056964608, 1063105495>>, <<1058887306, 1058250299, 1062283039>>,
  <<1058887307, 1058250300, 1062283038>>, <<1058887308, 1058250301, 1062283037>>,
  <<1059038252, 1058373230, 1062195445>>, <<1060565028, 1059570389, 1061248742>>,
  <<1060565029, 1059570390, 1061248741>>, <<1060565030, 1059570391, 1061248741>>,
  <<1060715974, 1059683960, 1061149313>>, <<1061326684, 1060134184, 1060736730>>,
  <<1061554834, 1060298481, 1060578433>>, <<1061752795, 1060439283, 1060439283>>,
  <<1062242749, 1060780626, 1060087824>>, <<1062242750, 1060780626, 1060087823>>,
  <<1062242751, 1060780627, 1060087823>>, <<1062393696, 1060883704, 1059977553>>,
  <<1063920470, 1061868918, 1058811884>>, <<1063920471, 1061868918, 1058811883>>,
  <<1063920472, 1061868919, 1058811882>>, <<1063920473, 1061868919, 1058811881>>,
  <<1064071418, 1061960473, 1058691872>>, <<1065353216, 1062693540, 1057640768>>,
  <<1065437102, 1062783481, 1057499142>>, <<1065475704, 1062824392, 1057433669>>,
  <<1065475705, 1062824393, 1057433668>>, <<1065551177, 1062903507, 1057305119>>,
  <<1065551178, 1062903508, 1057305117>>, <<1065749138, 1063105496, 1056964607>>,
  <<1066314565, 1063637501, 1054969296>>, <<1066314566, 1063637502, 1054969292>>,
  <<1066702073, 1063962734, 1053562503>>, <<1067153426, 1064300120, 1051888165>>,
  <<1067540934, 1064553506, 1050423462>>, <<1067648329, 1064617718, 1050013531>>,
  <<1067992287, 1064805629, 1048690124>>, <<1067992288, 1064805630, 1048690120>>,
  <<1068379795, 1064984636, 1045788291>>, <<1068831148, 1065148977, 1042238252>>,
  <<1069218656, 1065251816, 1038144366>>, <<1069670008, 1065326733, 1030098258>>,
  <<1069670009, 1065326733, 1030098226>>, <<1069745481, 1065334533, 1027686357>>,
  <<1070057517, 1065352377, 1008981534>>, <<1070141403, 1065353216, -859553070>>,
  <<1071347730, 1065180038, -1041416175>>, <<1073741824, 1063831479, -1054150963>>,
  <<1078530011, -867941678, -1065353216>>, <<1086774789, -1032608058, 1065313774>>,
  <<1086984504, 1023453508, 1065344937>>, <<1087194219, 1040592633, 1065208551>>,
  <<1087403934, 1047190631, 1064905978>>, <<1087823365, 1054218450, 1063815991>>,
  <<1088033080, 1057077939, 1063039471>>, <<1088242795, 1058479402, 1062118438>>,
  <<1088871941, 1062039147, 1058586927>>, <<1089081656, 1062971311, 1057192843>>,
  <<1089920517, 1065190517, 1041122138>>, <<1095986946, 1058705699, 1061950011>>,
  <<1096091804, 1059990271, 1060871910>>, <<1096196662, 1061160794, 1059670951>>,
  <<1096511234, 1063877490, 1053948117>>, <<1096616092, 1064487938, 1050824159>>,
  <<1097035522, 1065302942, -1033792886>>, <<1101117313, 1064999349, 1045509267>>,
  <<1101169742, 1065259492, 1037577308>>, <<1101379457, 1064632134, -1049918898>>,
  <<1104787329, 1063209501, -1056599050>>
}

TrigRow(a) == CHOOSE row \in TrigTable : row[1] = a
F32Sin(a) == IF a = NaN \/ F32IsInf(a) THEN NaN ELSE TrigRow(a)[2]
F32Cos(a) == IF a = NaN \/ F32IsInf(a) THEN NaN ELSE TrigRow(a)[3]

(***************************************************************************)
(* camera/spherical.rs                                                     *)
(***************************************************************************)
FRAC_PI_2 == 1070141403
FRAC_PI_4 == 1061752795
FRAC_PI_6 == 1057360530

RADIUS_MIN == Dec(1, 10000)
RADIUS_MAX == F32FromInt(100000000)
ELEVATION_MIN == Dec(1, 100)
ELEVATION_MAX == F32Sub(FRAC_PI_2, Dec(1, 100))

CameraNew(aspect) ==
  [target |-> V3Zero,
   radius |-> F32FromInt(20),
   azimuth |-> F32Neg(FRAC_PI_4),
   elevation |-> FRAC_PI_6,
   aspect |-> aspect,
   fovy |-> FRAC_PI_4]

set_aspect(cam, aspect) == [cam EXCEPT !.aspect = aspect]

\* (variant: the azimuth is wrapped into one turn)
orbit_wraps(cam, delta_az, delta_el) ==
  [cam EXCEPT
     !.azimuth = IF F32Gt(F32Add(cam.azimuth, delta_az), F32Mul(FRAC_PI_2, F32FromInt(2)))
                 THEN F32Sub(F32Add(cam.azimuth, delta_az),
                             F32Mul(FRAC_PI_2, F32FromInt(4)))
                 ELSE F32Add(cam.azimuth, delta_az),
     !.elevation = F32Clamp(F32Add(cam.elevation, delta_el),
                            ELEVATION_MIN, ELEVATION_MAX)]

orbit(cam, delta_az, delta_el) ==
  [cam EXCEPT
     !.azimuth = F32Add(cam.azimuth, delta_az),
     !.elevation = F32Clamp(F32Add(cam.elevation, delta_el),
                            ELEVATION_MIN, ELEVATION_MAX)]

\* (variant: zoom without the clamp)
zoom_unclamped(cam, factor) == [cam EXCEPT !.radius = F32Mul(cam.radius, factor)]

zoom(cam, factor) ==
  [cam EXCEPT !.radius = F32Clamp(F32Mul(cam.radius, factor),
                                  RADIUS_MIN, RADIUS_MAX)]

eye_position(cam) ==
  LET cos_el == F32Cos(cam.elevation)
      sin_el == F32Sin(cam.elevation)
      cos_az == F32Cos(cam.azimuth)
      sin_az == F32Sin(cam.azimuth)
  IN  V3Add(cam.target,
            V3(F32Mul(F32Mul(cam.radius, cos_el), sin_az),
               F32Mul(F32Mul(cam.radius, cos_el), cos_az),
               F32Mul(cam.radius, sin_el)))

compute_right(eye, target) ==
  LET fwd == V3Normalize(V3Sub(target, eye))
  IN  V3Normalize(V3Cross(fwd, V3Z))

compute_up(eye, target, right) ==
  LET fwd == V3Normalize(V3Sub(target, eye))
  IN  V3Normalize(V3Cross(right, fwd))

pan(cam, dx, dy) ==
  LET eye == eye_position(cam)
      right == compute_right(eye, cam.target)
      up == compute_up(eye, cam.target, right)
  IN  [cam EXCEPT !.target = V3Add(cam.target,
                                   V3Add(V3Scale(right, dx), V3Scale(up, dy)))]

\* Mat4::look_at_rh(eye, target, Vec3::Z) of glam, kept as its arguments
build_view_matrix(cam) ==
  [eye |-> eye_position(cam), center |-> cam.target, up |-> V3Z]

\* Mat4::perspective_rh(fovy, aspect, znear, zfar) of glam, kept as its arguments
\* (variant: the far plane does not scale with the radius)
build_projection_matrix_fixed_far(cam) ==
  [fovy |-> cam.fovy, aspect |-> cam.aspect,
   znear |-> F32Max(F32Mul(cam.radius, Dec(1, 100)), Dec(1, 10000)),
   zfar |-> F32FromInt(10000)]

build_projection_matrix(cam) ==
  LET znear == F32Max(F32Mul(cam.radius, Dec(1, 100)), Dec(1, 10000))
      zfar == F32Max(F32Mul(cam.radius, F32FromInt(100)), F32FromInt(10000))
  IN  [fovy |-> cam.fovy, aspect |-> cam.aspect, znear |-> znear, zfar |-> zfar]

\* projection * view, kept as the pair of factors
build_view_proj(cam) ==
  [proj |-> build_projection_matrix(cam), view |-> build_view_matrix(cam)]

(***************************************************************************)
(* camera/uniform.rs, renderer/grid.rs, renderer/debug.rs, renderer/depth.rs*)
(***************************************************************************)
CameraUniformFromCamera(cam) == [view_proj |-> build_view_proj(cam)]

GridUniformFromCamera(cam) ==
  [view_proj |-> build_view_proj(cam),
   inv_view_proj |-> [inverse_of |-> build_view_proj(cam)],
   eye_pos |-> eye_position(cam),
   fade_near |-> F32Mul(cam.radius, Dec(5, 2)),
   fade_far |-> F32Mul(cam.radius, F32FromInt(25))]

MARKER_ARM == Dec(3, 10)
COL_TARGET == V3(F32FromInt(1), F32FromInt(1), F32FromInt(1))
COL_PROJ == V3(F32FromInt(1), F32FromInt(1), Dec(2, 10))
COL_CONNECT == V3(Dec(5, 10), Dec(5, 10), Dec(5, 10))
Z_THRESHOLD == Dec(1, 1000)
MAX_VERTS == 14

make_vertex(pos, col) == pos \o col

push_cross(verts, centre, col) ==
  verts \o
  << make_vertex(V3(F32Sub(centre[1], MARKER_ARM), centre[2], centre[3]), col),
     make_vertex(V3(F32Add(centre[1], MARKER_ARM), centre[2], centre[3]), col),
     make_vertex(V3(centre[1], F32Sub(centre[2], MARKER_ARM), centre[3]), col),
     make_vertex(V3(centre[1], F32Add(centre[2], MARKER_ARM), centre[3]), col),
     make_vertex(V3(centre[1], centre[2], F32Sub(centre[3], MARKER_ARM)), col),
     make_vertex(V3(centre[1], centre[2], F32Add(centre[3], MARKER_ARM)), col) >>

\* (variant: the projection cross and the connecting line are always drawn)
DebugMeshUpdate_always_line(cam) ==
  [vertex_count |-> MAX_VERTS,
   vertices |->
     push_cross(push_cross(<<>>, cam.target, COL_TARGET),
                V3(cam.target[1], cam.target[2], 0), COL_PROJ)
     \o << make_vertex(cam.target, COL_CONNECT),
           make_vertex(V3(cam.target[1], cam.target[2], 0), COL_CONNECT) >>]

\* DebugMesh::update: the vertex count and the vertices written to the buffer
DebugMeshUpdate(cam) ==
  LET target == cam.target
      proj == V3(target[1], target[2], 0)
      cross == push_cross(<<>>, target, COL_TARGET)
      verts == IF F32Gt(Abs(target[3]), Z_THRESHOLD)
               THEN push_cross(cross, proj, COL_PROJ)
                    \o << make_vertex(target, COL_CONNECT),
                          make_vertex(proj, COL_CONNECT) >>
               ELSE cross
  IN  [vertex_count |-> Len(verts), vertices |-> verts]

DebugMeshCreate == [vertex_count |-> 0, vertices |-> <<>>]

DepthResourcesCreate(config) == [width |-> config.width, height |-> config.height]

(***************************************************************************)
(* input/mod.rs                                                            *)
(***************************************************************************)
InputStateNew ==
  [mouse_x |-> 0, mouse_y |-> 0, mouse_dx |-> 0, mouse_dy |-> 0,
   left_held |-> FALSE, middle_held |-> FALSE, right_held |-> FALSE,
   scroll |-> 0, shift_held |-> FALSE]

\* A window event is a record with a field "type"; a cursor position and a
\* pixel scroll delta arrive as f64 (here whole numbers) and are cast to f32,
\* a line scroll delta arrives as f32.
handle_event(in, event) ==
  CASE event.type = "CursorMoved" ->
         LET px == F32FromInt(event.x)
             py == F32FromInt(event.y)
         IN  [in EXCEPT !.mouse_dx = F32Sub(px, in.mouse_x),
                        !.mouse_dy = F32Sub(py, in.mouse_y),
                        !.mouse_x = px,
                        !.mouse_y = py]
    [] event.type = "MouseInput" ->
         LET pressed == event.state = "Pressed"
         IN  CASE event.button = "Left" -> [in EXCEPT !.left_held = pressed]
               [] event.button = "Middle" -> [in EXCEPT !.middle_held = pressed]
               [] event.button = "Right" -> [in EXCEPT !.right_held = pressed]
               [] OTHER -> in
    [] event.type = "MouseWheel" ->
         IF event.delta = "LineDelta"
         THEN [in EXCEPT !.scroll = F32Add(in.scroll, event.y)]
         ELSE [in EXCEPT !.scroll = F32Add(in.scroll, F32FromInt(event.y))]
    [] event.type = "KeyboardInput" ->
         IF event.key = "Shift"
         THEN [in EXCEPT !.shift_held = (event.state = "Pressed")]
         ELSE in
    [] OTHER -> in

\* (variant: end_frame keeps the pointer delta)
end_frame_keeps_motion(in) == [in EXCEPT !.scroll = 0]

\* (variant: end_frame keeps the accumulated scroll)
end_frame_keeps_scroll(in) == [in EXCEPT !.mouse_dx = 0, !.mouse_dy = 0]

\* (variant: end_frame also releases the buttons)
end_frame_releases_buttons(in) ==
  [in EXCEPT !.mouse_dx = 0, !.mouse_dy = 0, !.scroll = 0,
             !.left_held = FALSE, !.middle_held = FALSE, !.right_held = FALSE]

end_frame(in) == [in EXCEPT !.mouse_dx = 0, !.mouse_dy = 0, !.scroll = 0]

(***************************************************************************)
(* input/camera_control.rs                                                 *)
(***************************************************************************)
ORBIT_SENSITIVITY == Dec(5, 1000)
PAN_SENSITIVITY == Dec(2, 1000)
ZOOM_FACTOR == Dec(1, 10)

\* (variant: orbit without the rotate button)
apply_orbit_any_button(in, cam) ==
  IF F32Eq(in.mouse_dx, 0) /\ F32Eq(in.mouse_dy, 0) THEN cam
  ELSE orbit(cam, F32Mul(F32Neg(in.mouse_dx), ORBIT_SENSITIVITY),
             F32Mul(in.mouse_dy, ORBIT_SENSITIVITY))

apply_orbit(in, cam) ==
  IF ~in.right_held THEN cam
  ELSE IF F32Eq(in.mouse_dx, 0) /\ F32Eq(in.mouse_dy, 0) THEN cam
  ELSE LET delta_az == F32Mul(F32Neg(in.mouse_dx), ORBIT_SENSITIVITY)
           delta_el == F32Mul(in.mouse_dy, ORBIT_SENSITIVITY)
       IN  orbit(cam, delta_az, delta_el)

\* (variant: the pan amounts are not scaled by the radius)
apply_pan_unscaled(in, cam) ==
  IF ~in.middle_held THEN cam
  ELSE IF F32Eq(in.mouse_dx, 0) /\ F32Eq(in.mouse_dy, 0) THEN cam
  ELSE pan(cam, F32Mul(F32Neg(in.mouse_dx), PAN_SENSITIVITY),
           F32Mul(in.mouse_dy, PAN_SENSITIVITY))

apply_pan(in, cam) ==
  IF ~in.middle_held THEN cam
  ELSE IF F32Eq(in.mouse_dx, 0) /\ F32Eq(in.mouse_dy, 0) THEN cam
  ELSE LET scale == F32Mul(cam.radius, PAN_SENSITIVITY)
           dx == F32Mul(F32Neg(in.mouse_dx), scale)
           dy == F32Mul(in.mouse_dy, scale)
       IN  pan(cam, dx, dy)

\* (variant: positive scroll zooms out)
apply_zoom_inverted(in, cam) ==
  IF F32Eq(in.scroll, 0) THEN cam
  ELSE zoom(cam, F32Add(F32FromInt(1), F32Mul(in.scroll, ZOOM_FACTOR)))

apply_zoom(in, cam) ==
  IF F32Eq(in.scroll, 0) THEN cam
  ELSE LET factor == F32Sub(F32FromInt(1), F32Mul(in.scroll, ZOOM_FACTOR))
       IN  zoom(cam, factor)

apply_input_to_camera(in, cam) == apply_zoom(in, apply_pan(in, apply_orbit(in, cam)))

(***************************************************************************)
(* renderer/core.rs, renderer/grid.rs, renderer/axes.rs, renderer/gui.rs   *)
(***************************************************************************)
\* the depth-stencil and blend state of the three pipelines
create_cube_pipeline ==
  [depth_write_enabled |-> TRUE, depth_compare |-> "Less", blend |-> "REPLACE"]
create_axes_pipeline ==
  [depth_write_enabled |-> TRUE, depth_compare |-> "Less", blend |-> "REPLACE"]
\* (variant: the grid pipeline writes depth)
create_grid_pipeline_writes_depth ==
  [depth_write_enabled |-> TRUE, depth_compare |-> "LessEqual",
   blend |-> "ALPHA_BLENDING"]

create_grid_pipeline ==
  [depth_write_enabled |-> FALSE, depth_compare |-> "LessEqual",
   blend |-> "ALPHA_BLENDING"]

configure_surface == [width |-> 800, height |-> 600]

\* Renderer::new.  surface is the configuration last handed to
\* surface.configure.
RendererNew(cam) ==
  LET config == configure_surface
  IN  [config |-> config,
       surface |-> config,
       depth |-> DepthResourcesCreate(config),
       camera_buffer |-> CameraUniformFromCamera(cam),
       grid_buffer |-> GridUniformFromCamera(cam),
       debug |-> DebugMeshUpdate(cam),
       pipeline |-> create_cube_pipeline,
       grid_pipeline |-> create_grid_pipeline,
       axes_pipeline |-> create_axes_pipeline,
       grid_lod_scale |-> F32FromInt(1),
       grid_lod_fade |-> F32FromInt(1)]

\* (variant: the grid uniform is not written)
update_camera_skips_grid(r, cam) ==
  [r EXCEPT !.camera_buffer = CameraUniformFromCamera(cam),
            !.debug = DebugMeshUpdate(cam)]

update_camera(r, cam) ==
  [r EXCEPT !.camera_buffer = CameraUniformFromCamera(cam),
            !.grid_buffer = GridUniformFromCamera(cam),
            !.debug = DebugMeshUpdate(cam)]

\* (variant: the depth buffer is not rebuilt)
RendererResize_keeps_depth(r, width, height) ==
  IF width = 0 \/ height = 0 THEN r
  ELSE LET config == [width |-> width, height |-> height]
       IN  [r EXCEPT !.config = config, !.surface = config]

RendererResize(r, width, height) ==
  IF width = 0 \/ height = 0 THEN r
  ELSE LET config == [width |-> width, height |-> height]
       IN  [r EXCEPT !.config = config,
                     !.surface = config,
                     !.depth = DepthResourcesCreate(config)]

\* (variant: the grid is drawn first)
record_render_pass_grid_first(r) ==
  [label |-> "Render Pass",
   color_load |-> "Clear",
   depth_load |-> "Clear",
   clear_depth |-> F32FromInt(1),
   depth_view |-> r.depth,
   draws |->
     << [mesh |-> "grid", pipeline |-> r.grid_pipeline],
        [mesh |-> "cube", pipeline |-> r.pipeline],
        [mesh |-> "axes", pipeline |-> r.axes_pipeline] >>
     \o (IF r.debug.vertex_count > 0
         THEN << [mesh |-> "debug", pipeline |-> r.axes_pipeline] >>
         ELSE << >>)]

\* a render pass is kept as what it clears and the draws recorded into it
record_render_pass(r) ==
  [label |-> "Render Pass",
   color_load |-> "Clear",
   depth_load |-> "Clear",
   clear_depth |-> F32FromInt(1),
   depth_view |-> r.depth,
   draws |->
     << [mesh |-> "cube", pipeline |-> r.pipeline],
        [mesh |-> "axes", pipeline |-> r.axes_pipeline] >>
     \o (IF r.debug.vertex_count > 0
         THEN << [mesh |-> "debug", pipeline |-> r.axes_pipeline] >>
         ELSE << >>)
     \o << [mesh |-> "grid", pipeline |-> r.grid_pipeline] >>]

\* GuiRenderer::render: the overlay pass loads the colour attachment and has
\* no depth attachment
GuiRender(inner_size) ==
  [label |-> "Egui Pass", color_load |-> "Load", depth_load |-> "None",
   size_in_pixels |-> inner_size]

\* What the device does with one draw at one sample of the depth attachment:
\* frag is the fragment the draw produces there, if it covers the sample.
DepthTest(compare, frag_depth, stored) ==
  IF compare = "Less" THEN F32Lt(frag_depth, stored) ELSE F32Le(frag_depth, stored)

DrawDepth(pipeline, frag, stored) ==
  IF frag.covered /\ DepthTest(pipeline.depth_compare, frag.depth, stored)
     /\ pipeline.depth_write_enabled
  THEN frag.depth
  ELSE stored

\* the depth at the sample after the clear and after each draw of the pass
RECURSIVE ExecuteDraws(_, _, _)
ExecuteDraws(draws, scene, stored) ==
  IF draws = << >> THEN << >>
  ELSE LET after == DrawDepth(Head(draws).pipeline, scene[Head(draws).mesh], stored)
       IN  << after >> \o ExecuteDraws(Tail(draws), scene, after)

ExecutePass(pass, scene) ==
  << pass.clear_depth >> \o ExecuteDraws(pass.draws, scene, pass.clear_depth)

(***************************************************************************)
(* Bounds and inputs of the model                                          *)
(***************************************************************************)
MaxEvents == 3      \* window events handled in one run
MaxCalls == 3       \* camera calls in one run of SpecCamera
MaxUiPasses == 2    \* calls of the run_ui closure by one Context::run

\* inner sizes a new window can have
WindowSizes == { <<800, 600>>, <<0, 0>>, <<1024, 768>>, <<1920, 1080>> }

CursorPositions == { <<0, 0>>, <<40, 20>>, <<100, 400>> }

WindowEvents ==
  { [type |-> "CursorMoved", x |-> p[1], y |-> p[2]] : p \in CursorPositions }
  \cup { [type |-> "MouseInput", state |-> st, button |-> b] :
           st \in {"Pressed", "Released"},
           b \in {"Left", "Middle", "Right", "Back"} }
  \cup { [type |-> "MouseWheel", delta |-> "LineDelta", y |-> F32FromInt(1)],
         [type |-> "MouseWheel", delta |-> "LineDelta", y |-> F32FromInt(-1)],
         [type |-> "MouseWheel", delta |-> "PixelDelta", y |-> 30] }
  \cup { [type |-> "KeyboardInput", key |-> k, state |-> st] :
           k \in {"Shift", "Other"}, st \in {"Pressed", "Released"} }
  \cup { [type |-> "Resized", width |-> sz[1], height |-> sz[2]] :
           sz \in { <<0, 0>>, <<1024, 0>>, <<0, 768>>, <<1024, 768>> } }
  \cup { [type |-> "CloseRequested"] }

\* the fragments one frame's draws produce at the sample: per mesh, whether
\* the draw covers the sample and at which depth
Frag(n, d) == [covered |-> TRUE, depth |-> Dec(n, d)]
NoFrag == [covered |-> FALSE, depth |-> 0]
Scenes ==
  { [cube |-> Frag(1, 2), axes |-> Frag(1, 4), debug |-> Frag(3, 4), grid |-> Frag(1, 1)],
    [cube |-> NoFrag, axes |-> NoFrag, debug |-> NoFrag, grid |-> Frag(1, 1)],
    [cube |-> Frag(1, 2), axes |-> Frag(3, 4), debug |-> Frag(1, 4), grid |-> Frag(1, 8)] }

(***************************************************************************)
(* app.rs: the application state and the handlers of the event loop        *)
(***************************************************************************)
VARIABLES
  camera,      \* the Camera inside the Arc<Mutex<..>>
  cam_guards,  \* the live guards of the camera mutex, by the code that took them
  input,       \* KyzuApp::input
  window,      \* KyzuApp::window: << >> is None, << w >> is Some(w)
  renderer,    \* KyzuApp::renderer: << >> is None, << r >> is Some(r)
  pc,          \* the point the running handler has reached; "idle" between handlers
  local,       \* the locals of the running handler
  frame,       \* what the running on_frame has done so far
  ui_seen,     \* the telemetry the overlay has shown in the running frame
  events,      \* number of window events handled
  exiting,     \* event_loop.exit() was called
  panicked,    \* an expect() failed
  calls        \* number of camera calls made (SpecCamera)

vars == << camera, cam_guards, input, window, renderer, pc, local, frame,
           ui_seen, events, exiting, panicked, calls >>

NoFrame ==
  [steps |-> << >>, acquires |-> 0, acquired |-> FALSE, configures |-> 0,
   encoder |-> << >>, depth_trace |-> << >>, submits |-> 0, presents |-> 0]

Init ==
  /\ camera = CameraNew(Dec(16, 9))
  /\ cam_guards = {}
  /\ input = InputStateNew
  /\ window = << >>
  /\ renderer = << >>
  /\ pc = "idle"
  /\ local = << >>
  /\ frame = NoFrame
  /\ ui_seen = << >>
  /\ events = 0
  /\ exiting = FALSE
  /\ panicked = FALSE
  /\ calls = 0

\* the handlers are called as long as no panic has unwound the program;
\* event_loop.exit() only asks the loop to stop
Running == ~panicked

\* u32 as f32 / u32 as f32
AspectOf(width, height) == F32Div(F32FromInt(width), F32FromInt(height))

\* resumed -> init_window_and_renderer, up to the first lock of the camera
\* create_window(attrs).unwrap() panics when the window cannot be created
resumed ==
  /\ Running /\ pc = "idle"
  /\ window = << >>
  /\ cam_guards = {}
  /\ \E created \in BOOLEAN, size \in WindowSizes :
       IF created
       THEN /\ local' = << [inner_size |-> size, redraw_pending |-> FALSE] >>
            /\ cam_guards' = {"init_aspect"}
            /\ pc' = "init_aspect"
            /\ UNCHANGED panicked
       ELSE /\ panicked' = TRUE
            /\ UNCHANGED << local, cam_guards, pc >>
  /\ UNCHANGED << camera, input, window, renderer, frame, ui_seen, events,
                  exiting, calls >>

\* the block that sets the aspect from the window's inner size; its guard is
\* dropped at the end of the block
init_set_aspect ==
  /\ pc = "init_aspect"
  /\ LET size == local[1].inner_size
     IN  camera' = set_aspect(camera, AspectOf(size[1], size[2]))
  /\ cam_guards' = cam_guards \ {"init_aspect"}
  /\ pc' = "init_lock"
  /\ UNCHANGED << input, window, renderer, local, frame, ui_seen, events,
                  exiting, panicked, calls >>

\* the second lock of init_window_and_renderer
init_lock ==
  /\ pc = "init_lock"
  /\ cam_guards = {}
  /\ cam_guards' = {"init_renderer"}
  /\ pc' = "init_renderer"
  /\ UNCHANGED << camera, input, window, renderer, local, frame, ui_seen,
                  events, exiting, panicked, calls >>

\* Renderer::new and the two assignments; the surface, adapter or device
\* request may fail, and its expect() then panics
init_renderer ==
  /\ pc = "init_renderer"
  /\ \E gpu_ok \in BOOLEAN :
       IF gpu_ok
       THEN /\ window' = local
            /\ renderer' = << RendererNew(camera) >>
            /\ UNCHANGED panicked
       ELSE /\ panicked' = TRUE
            /\ UNCHANGED << window, renderer >>
  /\ cam_guards' = cam_guards \ {"init_renderer"}
  /\ local' = << >>
  /\ pc' = "idle"
  /\ UNCHANGED << camera, input, frame, ui_seen, events, exiting, calls >>

\* (variant: no check for a zero size)
on_resize_begin_unchecked(width, height) ==
  IF renderer = << >>
  THEN UNCHANGED << renderer, cam_guards, pc, local >>
  ELSE /\ cam_guards = {}
       /\ renderer' = << RendererResize(renderer[1], width, height) >>
       /\ cam_guards' = {"on_resize"}
       /\ local' = << [width |-> width, height |-> height] >>
       /\ pc' = "on_resize"

\* on_resize up to its lock of the camera: the size check, the renderer
\* check and Renderer::resize
on_resize_begin(width, height) ==
  IF width = 0 \/ height = 0 \/ renderer = << >>
  THEN UNCHANGED << renderer, cam_guards, pc, local >>
  ELSE /\ cam_guards = {}
       /\ renderer' = << RendererResize(renderer[1], width, height) >>
       /\ cam_guards' = {"on_resize"}
       /\ local' = << [width |-> width, height |-> height] >>
       /\ pc' = "on_resize"

\* gui.state.on_window_event(..).consumed, asked only when the renderer is
\* there; `consumed` is what the overlay answers, for any kind of event
on_window_event(event, consumed) == renderer # << >> /\ consumed

\* the window after the event: a Resized event for it tells of the size it
\* now has, whether or not the event is handled further
Resizes(win, is_our_window, event) ==
  IF is_our_window /\ event.type = "Resized"
  THEN << [win[1] EXCEPT !.inner_size = << event.width, event.height >>] >>
  ELSE win

\* (variant: the overlay's response is not looked at)
window_event_on_ignores_response(target, event, consumed) ==
  /\ Running /\ pc = "idle"
  /\ events < MaxEvents
  /\ events' = events + 1
  /\ LET is_our_window == window # << >> /\ target = "ours"
         response_consumed == FALSE
     IN  IF ~is_our_window \/ response_consumed
         THEN /\ window' = Resizes(window, is_our_window, event)
              /\ UNCHANGED << camera, cam_guards, input, renderer, pc, local,
                              exiting >>
         ELSE /\ input' = handle_event(input, event)
              /\ UNCHANGED camera
              /\ CASE event.type = "CloseRequested" ->
                        /\ exiting' = TRUE
                        /\ UNCHANGED << window, renderer, cam_guards, pc, local >>
                   [] event.type = "Resized" ->
                        /\ window' = Resizes(window, is_our_window, event)
                        /\ on_resize_begin(event.width, event.height)
                        /\ UNCHANGED exiting
                   [] OTHER ->
                        UNCHANGED << window, renderer, cam_guards, pc, local,
                                     exiting >>
  /\ UNCHANGED << frame, panicked, calls >>

\* window_event for one event, one target window and one answer of the
\* overlay.  A Resized event tells of the size the window now has.
window_event_on(target, event, consumed) ==
  /\ Running /\ pc = "idle"
  /\ events < MaxEvents
  /\ events' = events + 1
  /\ LET is_our_window == window # << >> /\ target = "ours"
         response_consumed == on_window_event(event, consumed)
     IN  IF ~is_our_window \/ response_consumed
         THEN /\ window' = Resizes(window, is_our_window, event)
              /\ UNCHANGED << camera, cam_guards, input, renderer, pc, local,
                              exiting >>
         ELSE /\ input' = handle_event(input, event)
              /\ UNCHANGED camera
              /\ CASE event.type = "CloseRequested" ->
                        /\ exiting' = TRUE
                        /\ UNCHANGED << window, renderer, cam_guards, pc, local >>
                   [] event.type = "Resized" ->
                        /\ window' = Resizes(window, is_our_window, event)
                        /\ on_resize_begin(event.width, event.height)
                        /\ UNCHANGED exiting
                   [] OTHER ->
                        UNCHANGED << window, renderer, cam_guards, pc, local,
                                     exiting >>
  /\ UNCHANGED << frame, panicked, calls >>

\* window_event is called between handlers, for any event, any target window
\* and any answer of the overlay
window_event ==
  /\ pc = "idle"
  /\ \E target \in {"ours", "other"}, event \in WindowEvents, consumed \in BOOLEAN :
       window_event_on(target, event, consumed) /\ UNCHANGED ui_seen

\* the rest of on_resize, under the camera guard
on_resize_camera ==
  /\ pc = "on_resize"
  /\ camera' = set_aspect(camera, AspectOf(local[1].width, local[1].height))
  /\ renderer' = << update_camera(renderer[1], camera') >>
  /\ window' = IF window # << >>
               THEN << [window[1] EXCEPT !.redraw_pending = TRUE] >>
               ELSE window
  /\ cam_guards' = cam_guards \ {"on_resize"}
  /\ local' = << >>
  /\ pc' = "idle"
  /\ UNCHANGED << input, frame, ui_seen, events, exiting, panicked, calls >>

\* the RedrawRequested event that a request_redraw brings: window_event
\* passes it to the overlay and to handle_event, which both ignore it
redraw_requested ==
  /\ Running /\ pc = "idle"
  /\ window # << >> /\ window[1].redraw_pending
  /\ window' = << [window[1] EXCEPT !.redraw_pending = FALSE] >>
  /\ input' = handle_event(input, [type |-> "RedrawRequested"])
  /\ UNCHANGED << camera, cam_guards, renderer, pc, local, frame, ui_seen,
                  events, exiting, panicked, calls >>

Did(f, step) == [f EXCEPT !.steps = Append(f.steps, step)]

\* (variant: on_frame goes on without the guard)
about_to_wait_unlocked ==
  /\ Running /\ pc = "idle"
  /\ window # << >>
  /\ frame' = NoFrame
  /\ pc' = "on_frame"
  /\ UNCHANGED << camera, cam_guards, input, window, renderer, local, ui_seen,
                  events, exiting, panicked, calls >>

\* about_to_wait -> on_frame, up to its lock of the camera
about_to_wait ==
  /\ Running /\ pc = "idle"
  /\ window # << >>
  /\ cam_guards = {}
  /\ cam_guards' = {"on_frame"}
  /\ frame' = NoFrame
  /\ pc' = "on_frame"
  /\ UNCHANGED << camera, input, window, renderer, local, ui_seen, events,
                  exiting, panicked, calls >>

\* (variant: end_frame is called before the frame is rendered)
on_frame_input_ends_frame ==
  /\ pc = "on_frame"
  /\ IF renderer # << >>
     THEN /\ camera' = apply_input_to_camera(input, camera)
          /\ renderer' = << update_camera(renderer[1], camera') >>
          /\ frame' = Did(Did(frame, "apply_input"), "update_camera")
          /\ pc' = "run_ui_lock"
     ELSE /\ UNCHANGED << camera, renderer, frame >>
          /\ pc' = "idle"
  /\ input' = end_frame(input)
  /\ cam_guards' = cam_guards \ {"on_frame"}
  /\ UNCHANGED << window, local, ui_seen, events, exiting, panicked, calls >>

\* (variant: the guard of the first block lives to the end of on_frame)
on_frame_input_keeps_guard ==
  /\ pc = "on_frame"
  /\ IF renderer # << >>
     THEN /\ camera' = apply_input_to_camera(input, camera)
          /\ renderer' = << update_camera(renderer[1], camera') >>
          /\ frame' = Did(Did(frame, "apply_input"), "update_camera")
          /\ pc' = "run_ui_lock"
          /\ UNCHANGED cam_guards
     ELSE /\ UNCHANGED << camera, renderer, frame >>
          /\ pc' = "idle"
          /\ cam_guards' = cam_guards \ {"on_frame"}
  /\ UNCHANGED << input, window, local, ui_seen, events, exiting, panicked, calls >>

\* the first block of on_frame, under the guard, then take_egui_input
on_frame_input ==
  /\ pc = "on_frame"
  /\ IF renderer # << >>
     THEN /\ camera' = apply_input_to_camera(input, camera)
          /\ renderer' = << update_camera(renderer[1], camera') >>
          /\ frame' = Did(Did(frame, "apply_input"), "update_camera")
          /\ pc' = "run_ui_lock"
     ELSE /\ UNCHANGED << camera, renderer, frame >>
          /\ pc' = "idle"
  /\ cam_guards' = cam_guards \ {"on_frame"}
  /\ UNCHANGED << input, window, local, ui_seen, events, exiting, panicked, calls >>

\* the calls of the run_ui closure made so far by the frame's Context::run
UiPasses(f) == Cardinality({ i \in 1..Len(f.steps) : f.steps[i] = "run_ui" })

\* context.run calls the closure, that is run_ui, which locks the camera; how
\* often it calls it in one frame is egui's choice
run_ui_lock ==
  /\ pc = "run_ui_lock"
  /\ UiPasses(frame) < MaxUiPasses
  /\ cam_guards = {}
  /\ cam_guards' = {"run_ui"}
  /\ pc' = "run_ui"
  /\ UNCHANGED << camera, input, window, renderer, local, frame, ui_seen,
                  events, exiting, panicked, calls >>

\* what the telemetry window reads
Telemetry(cam, r) ==
  [radius |-> cam.radius, target |-> cam.target, azimuth |-> cam.azimuth,
   elevation |-> cam.elevation, lod_scale |-> r.grid_lod_scale,
   lod_fade |-> r.grid_lod_fade]

\* one call of run_ui under its guard; the telemetry window is collapsible,
\* and its contents are read only when egui shows them
run_ui ==
  /\ pc = "run_ui"
  /\ \E shown \in BOOLEAN :
       ui_seen' = IF renderer # << >> /\ shown
                  THEN << Telemetry(camera, renderer[1]) >>
                  ELSE ui_seen
  /\ frame' = Did(frame, "run_ui")
  /\ cam_guards' = cam_guards \ {"run_ui"}
  /\ pc' = "run_ui_lock"
  /\ UNCHANGED << camera, input, window, renderer, local, events, exiting,
                  panicked, calls >>

\* context.run returns its output and on_frame goes on to Renderer::render
context_run_returns ==
  /\ pc = "run_ui_lock"
  /\ pc' = "acquire"
  /\ UNCHANGED << camera, cam_guards, input, window, renderer, local, frame,
                  ui_seen, events, exiting, panicked, calls >>

\* Renderer::render: the first get_current_texture
render_acquire ==
  /\ pc = "acquire"
  /\ \E ok \in BOOLEAN :
       /\ pc' = IF ok THEN "record" ELSE "reacquire"
       /\ frame' = [frame EXCEPT !.acquires = @ + 1, !.acquired = ok]
  /\ UNCHANGED << camera, cam_guards, input, window, renderer, local, ui_seen,
                  events, exiting, panicked, calls >>

\* (variant: a second failure is swallowed and the frame goes on)
render_reacquire_swallows ==
  /\ pc = "reacquire"
  /\ renderer' = << [renderer[1] EXCEPT !.surface = renderer[1].config] >>
  /\ \E ok \in BOOLEAN :
       /\ frame' = [frame EXCEPT !.configures = @ + 1, !.acquires = @ + 1,
                                 !.acquired = ok]
       /\ pc' = IF ok THEN "record" ELSE "end_frame"
  /\ UNCHANGED << camera, cam_guards, input, window, local, ui_seen, events,
                  exiting, panicked, calls >>

\* the Err arm: configure the surface again, retry, expect()
render_reacquire ==
  /\ pc = "reacquire"
  /\ renderer' = << [renderer[1] EXCEPT !.surface = renderer[1].config] >>
  /\ \E ok \in BOOLEAN :
       /\ frame' = [frame EXCEPT !.configures = @ + 1, !.acquires = @ + 1,
                                 !.acquired = ok]
       /\ IF ok THEN pc' = "record" /\ UNCHANGED panicked
          ELSE pc' = "idle" /\ panicked' = TRUE
  /\ UNCHANGED << camera, cam_guards, input, window, local, ui_seen, events,
                  exiting, calls >>

\* record_render_pass, then gui.render, into the one encoder
render_record ==
  /\ pc = "record"
  /\ frame' = [Did(Did(frame, "scene_pass"), "overlay_pass") EXCEPT
                 !.encoder = << record_render_pass(renderer[1]),
                                GuiRender(window[1].inner_size) >>]
  /\ pc' = "submit"
  /\ UNCHANGED << camera, cam_guards, input, window, renderer, local, ui_seen,
                  events, exiting, panicked, calls >>

\* queue.submit, which runs the passes on the device, and frame.present
render_submit ==
  /\ pc = "submit"
  /\ \E scene \in Scenes :
       frame' = [Did(Did(frame, "submit"), "present") EXCEPT
                   !.depth_trace = ExecutePass(frame.encoder[1], scene),
                   !.submits = @ + 1,
                   !.presents = @ + 1]
  /\ pc' = "end_frame"
  /\ UNCHANGED << camera, cam_guards, input, window, renderer, local, ui_seen,
                  events, exiting, panicked, calls >>

\* window.request_redraw and input.end_frame; the record of the frame and of
\* what its overlay showed ends with the frame
on_frame_end ==
  /\ pc = "end_frame"
  /\ window' = << [window[1] EXCEPT !.redraw_pending = TRUE] >>
  /\ input' = end_frame(input)
  /\ frame' = NoFrame
  /\ ui_seen' = << >>
  /\ pc' = "idle"
  /\ UNCHANGED << camera, cam_guards, renderer, local, events, exiting,
                  panicked, calls >>

Next ==
  \/ resumed
  \/ init_set_aspect
  \/ init_lock
  \/ init_renderer
  \/ window_event
  \/ on_resize_camera
  \/ redraw_requested
  \/ about_to_wait
  \/ on_frame_input
  \/ run_ui_lock
  \/ run_ui
  \/ context_run_returns
  \/ render_acquire
  \/ render_reacquire
  \/ render_record
  \/ render_submit
  \/ on_frame_end

Spec == Init /\ [][Next]_vars

(***************************************************************************)
(* The camera driven directly through its public methods                   *)
(***************************************************************************)
OrbitArgs ==
  { << Dec(1, 10), 0 >>, << 0, F32FromInt(2) >>, << 0, F32FromInt(-2) >>,
    << Dec(1, 2), Dec(1, 4) >>, << F32FromInt(7), 0 >>, << 0, Inf >>,
    << 0, NaN >> }
ZoomArgs ==
  { F32FromInt(2), F32FromInt(0), F32FromInt(-1), Dec(1, 2),
    F32Mul(F32FromInt(1000000), F32FromInt(1000000)), Inf, NaN }
PanArgs == { << F32FromInt(1), 0 >>, << 0, F32FromInt(1) >> }
AspectArgs == { Dec(4, 3), 0 }

CameraCall(cam) ==
  /\ pc = "idle" /\ calls < MaxCalls
  /\ calls' = calls + 1
  /\ camera' = cam
  /\ UNCHANGED << cam_guards, input, window, renderer, pc, local, frame,
                  ui_seen, events, exiting, panicked >>

call_orbit == \E a \in OrbitArgs : CameraCall(orbit(camera, a[1], a[2]))
call_zoom == \E f \in ZoomArgs : CameraCall(zoom(camera, f))
call_pan == \E a \in PanArgs : CameraCall(pan(camera, a[1], a[2]))
call_set_aspect == \E a \in AspectArgs : CameraCall(set_aspect(camera, a))

NextCamera == call_orbit \/ call_zoom \/ call_pan \/ call_set_aspect

SpecCamera == Init /\ [][NextCamera]_vars

(***************************************************************************)
(* InputState driven directly: events are handled and frames ended in any  *)
(* order.  local holds what the driver has sent: the whole-number sum of   *)
(* the wheel deltas since the last end_frame, per button the state of the  *)
(* last MouseInput event, and the number of end_frame calls.               *)
(***************************************************************************)
MaxInputSteps == 4  \* events and end_frame calls in one run of SpecInput

WheelDeltas == { 1, 0 - 1, 3 }
Buttons == { "Left", "Middle", "Right" }

\* what was sent so far: the wheel deltas of the frame, the last state sent
\* per button, the end_frame calls, the pointer position at the last
\* end_frame and the pointer moves since
NoneSent ==
  [wheel |-> 0, last |-> [b \in Buttons |-> "None"], frames |-> 0,
   anchor |-> << InputStateNew.mouse_x, InputStateNew.mouse_y >>, moves |-> 0]

InitInput ==
  /\ camera = CameraNew(Dec(16, 9))
  /\ cam_guards = {}
  /\ input = InputStateNew
  /\ window = << >>
  /\ renderer = << >>
  /\ pc = "idle"
  /\ local = << NoneSent >>
  /\ frame = NoFrame
  /\ ui_seen = << >>
  /\ events = 0
  /\ exiting = FALSE
  /\ panicked = FALSE
  /\ calls = 0

InputStep(in, sent) ==
  /\ events < MaxInputSteps
  /\ events' = events + 1
  /\ input' = in
  /\ local' = << sent >>
  /\ UNCHANGED << camera, cam_guards, window, renderer, pc, frame, ui_seen,
                  exiting, panicked, calls >>

\* handle_event with an event that is no wheel event
input_event ==
  \E event \in { e \in WindowEvents : e.type # "MouseWheel" } :
    InputStep(handle_event(input, event),
              IF event.type = "MouseInput" /\ event.button \in Buttons
              THEN [local[1] EXCEPT !.last[event.button] = event.state]
              ELSE IF event.type = "CursorMoved"
                   THEN [local[1] EXCEPT !.moves = @ + 1]
                   ELSE local[1])

\* handle_event with a wheel event of n lines or n pixels
input_wheel ==
  \E n \in WheelDeltas, delta \in {"LineDelta", "PixelDelta"} :
    InputStep(handle_event(input,
                [type |-> "MouseWheel", delta |-> delta,
                 y |-> IF delta = "LineDelta" THEN F32FromInt(n) ELSE n]),
              [local[1] EXCEPT !.wheel = @ + n])

input_end_frame ==
  InputStep(end_frame(input),
            [local[1] EXCEPT !.wheel = 0, !.frames = @ + 1, !.moves = 0,
                             !.anchor = << input.mouse_x, input.mouse_y >>])

NextInput == input_event \/ input_wheel \/ input_end_frame

SpecInput == InitInput /\ [][NextInput]_vars

(***************************************************************************)
(* input/camera_control.rs driven directly: one input snapshot is applied  *)
(* to one camera, either by apply_input_to_camera or by its three          *)
(* sub-mappings one at a time.  local holds the camera before and the      *)
(* sub-mappings applied so far.                                            *)
(***************************************************************************)
Press(in, button, on) ==
  IF on
  THEN handle_event(in, [type |-> "MouseInput", state |-> "Pressed", button |-> button])
  ELSE in

Wheel(in, lines) ==
  IF lines = 0 THEN in
  ELSE handle_event(in, [type |-> "MouseWheel", delta |-> "LineDelta",
                         y |-> F32FromInt(lines)])

\* the input after the buttons in held were pressed, the pointer moved from
\* (0, 0) to pos and the wheel turned by lines
Snapshot(held, pos, lines) ==
  Wheel(handle_event(Press(Press(Press(InputStateNew, "Left", "Left" \in held),
                                 "Middle", "Middle" \in held),
                           "Right", "Right" \in held),
                     [type |-> "CursorMoved", x |-> pos[1], y |-> pos[2]]),
        lines)

PointerMoves == { <<0, 0>>, <<40, 20>>, <<0, 400>>, <<1, 0>> }
WheelTurns == { 0, 1, 0 - 1, 10, 30, 0 - 30 }

InputSnapshots ==
  { Snapshot(held, pos, lines) :
      held \in SUBSET Buttons, pos \in PointerMoves, lines \in WheelTurns }

\* cameras the application reaches: the initial one, one at the top of its
\* elevation range, one zoomed out to twice the radius, and one panned away
\* from the origin and then zoomed in all the way
ControlCameras ==
  { CameraNew(Dec(16, 9)),
    orbit(CameraNew(Dec(16, 9)), 0, F32FromInt(2)),
    zoom(CameraNew(Dec(16, 9)), F32FromInt(2)),
    zoom(pan(CameraNew(Dec(16, 9)), F32FromInt(16), 0), 0) }

InitControl ==
  /\ camera \in ControlCameras
  /\ cam_guards = {}
  /\ input \in InputSnapshots
  /\ window = << >>
  /\ renderer = << >>
  /\ pc = "idle"
  /\ local = << [before |-> camera, done |-> << >>] >>
  /\ frame = NoFrame
  /\ ui_seen = << >>
  /\ events = 0
  /\ exiting = FALSE
  /\ panicked = FALSE
  /\ calls = 0

ControlStep(cam, done) ==
  /\ camera' = cam
  /\ local' = << [local[1] EXCEPT !.done = done] >>
  /\ UNCHANGED << cam_guards, input, window, renderer, pc, frame, ui_seen,
                  events, exiting, panicked, calls >>

control_apply ==
  /\ local[1].done = << >>
  /\ ControlStep(apply_input_to_camera(input, camera), << "orbit", "pan", "zoom" >>)

Applied(name) == \E i \in 1..Len(local[1].done) : local[1].done[i] = name

control_orbit ==
  /\ ~Applied("orbit")
  /\ ControlStep(apply_orbit(input, camera), Append(local[1].done, "orbit"))

control_pan ==
  /\ ~Applied("pan")
  /\ ControlStep(apply_pan(input, camera), Append(local[1].done, "pan"))

control_zoom ==
  /\ ~Applied("zoom")
  /\ ControlStep(apply_zoom(input, camera), Append(local[1].done, "zoom"))

NextControl == control_apply \/ control_orbit \/ control_pan \/ control_zoom

SpecControl == InitControl /\ [][NextControl]_vars

(***************************************************************************)
(* The camera and the renderer's camera-dependent buffers driven directly: *)
(* camera calls and Renderer::update_camera in any order.  local holds the *)
(* camera the run started from, the calls made (name, arguments, camera    *)
(* before the call) and the camera last handed to update_camera.           *)
(***************************************************************************)
MaxApiCalls == 3    \* calls in one run of SpecApi

Lifted(cam, z) == [cam EXCEPT !.target = V3(cam.target[1], cam.target[2], z)]

\* a camera zoomed out to RADIUS_MAX, panned there by the amount one pixel
\* of a middle-button drag gives (RADIUS_MAX * PAN_SENSITIVITY), and zoomed
\* in to RADIUS_MIN
FarAndClose ==
  zoom(pan(zoom(CameraNew(Dec(16, 9)), F32Mul(F32FromInt(1000000), F32FromInt(1000000))),
           F32Mul(RADIUS_MAX, PAN_SENSITIVITY), 0),
       0)

\* cameras to start from: the initial one, the target lifted off the ground
\* plane by 1.0, by -1.0 and by exactly Z_THRESHOLD, and FarAndClose
ApiCameras ==
  { CameraNew(Dec(16, 9)),
    Lifted(CameraNew(Dec(16, 9)), F32FromInt(1)),
    Lifted(CameraNew(Dec(16, 9)), F32FromInt(0 - 1)),
    Lifted(CameraNew(Dec(16, 9)), Z_THRESHOLD),
    FarAndClose }

ApiOrbitArgs == { << Dec(1, 10), 0 >> }
ApiZoomArgs == { F32FromInt(2), F32Mul(F32FromInt(1000000), F32FromInt(1000000)) }
ApiPanArgs == { << F32FromInt(1), 0 >>, << 0, F32FromInt(1) >> }

InitApi ==
  /\ camera \in ApiCameras
  /\ cam_guards = {}
  /\ input = InputStateNew
  /\ window = << >>
  /\ renderer = << RendererNew(camera) >>
  /\ pc = "idle"
  /\ local = << [start |-> camera, log |-> << >>, uploaded |-> camera] >>
  /\ frame = NoFrame
  /\ ui_seen = << >>
  /\ events = 0
  /\ exiting = FALSE
  /\ panicked = FALSE
  /\ calls = 0

ApiCall(name, args, cam) ==
  /\ calls < MaxApiCalls
  /\ calls' = calls + 1
  /\ camera' = cam
  /\ local' = << [local[1] EXCEPT
                    !.log = Append(@, [name |-> name, args |-> args,
                                       before |-> camera])] >>
  /\ UNCHANGED << cam_guards, input, window, renderer, pc, frame, ui_seen,
                  events, exiting, panicked >>

api_orbit == \E a \in ApiOrbitArgs : ApiCall("orbit", a, orbit(camera, a[1], a[2]))
api_zoom == \E f \in ApiZoomArgs : ApiCall("zoom", << f >>, zoom(camera, f))
api_pan == \E a \in ApiPanArgs : ApiCall("pan", a, pan(camera, a[1], a[2]))

api_update_camera ==
  /\ local[1].uploaded # camera
  /\ renderer' = << update_camera(renderer[1], camera) >>
  /\ local' = << [local[1] EXCEPT !.uploaded = camera] >>
  /\ UNCHANGED << camera, cam_guards, input, window, pc, frame, ui_seen,
                  events, exiting, panicked, calls >>

NextApi == api_orbit \/ api_zoom \/ api_pan \/ api_update_camera

SpecApi == InitApi /\ [][NextApi]_vars

(***************************************************************************)
(* SpecStart: the WASM entry point start(canvas_id) of kyzu-core, an async *)
(* function run on the browser's single thread.  local.calls[i] is the     *)
(* state of the i-th call of start(), local.console what console::log_1    *)
(* has written, in order.  One action per step of the function; at each    *)
(* of its two .await points the call may be suspended (pending), control   *)
(* is back in the event loop, and another callback may call start() again  *)
(* before the answer arrives.  pc is the position of the call that holds   *)
(* the thread, or "event_loop".  What the browser and the graphics library *)
(* answer at each step is drawn inside the step.                           *)
(***************************************************************************)
MaxStarts == 2

CanvasIds == { "kyzu-canvas", "minimap", "title", "missing" }

\* document.get_element_by_id: the elements of the page, by id
Elements == [ x \in { "kyzu-canvas", "minimap", "title" } |->
                IF x = "title" THEN "div" ELSE "canvas" ]

\* what window.inner_width() / inner_height() answer: Err, Ok(not a number)
\* or Ok(number)
InnerResults ==
  { [ok |-> FALSE, num |-> FALSE, v |-> 0], [ok |-> TRUE, num |-> FALSE, v |-> 0],
    [ok |-> TRUE, num |-> TRUE, v |-> 800], [ok |-> TRUE, num |-> TRUE, v |-> 1024],
    [ok |-> TRUE, num |-> TRUE, v |-> 1920],
    [ok |-> TRUE, num |-> TRUE, v |-> 0 - 1] }

\* match window.inner_width() { Ok(v) => v.as_f64().unwrap_or(0.0) as u32, Err(_) => 0 }
inner_dim(r) ==
  IF ~r.ok THEN 0 ELSE IF ~r.num THEN 0 ELSE IF r.v < 0 THEN 0 ELSE r.v

StartOrder ==
  << "window", "document", "canvas", "surface", "adapter", "device",
     "configure", "pipeline", "frame" >>

StartNew(id) ==
  [canvas_id |-> id, at |-> "window", pending |-> FALSE, log |-> << >>,
   steps |-> << >>, failed |-> << >>, config |-> << >>, pipeline |-> FALSE,
   submits |-> 0, presents |-> 0]

\* no call of start() has been made yet
InitStart ==
  /\ camera = CameraNew(Dec(16, 9))
  /\ cam_guards = {}
  /\ input = InputStateNew
  /\ window = << >>
  /\ renderer = << >>
  /\ local = [calls |-> << >>, console |-> << >>]
  /\ pc = "event_loop"
  /\ frame = NoFrame
  /\ ui_seen = << >>
  /\ events = 0
  /\ exiting = FALSE
  /\ panicked = FALSE
  /\ calls = 0

\* the call holds the thread: it has neither returned nor is it suspended
OnThread(st) == st.at # "returned" /\ ~st.pending

\* the call that holds the thread (there is one when pc # "event_loop")
Current == CHOOSE i \in 1..Len(local.calls) : OnThread(local.calls[i])

Cur == local.calls[Current]

\* the step `name` begins
StartEnter(st, name) == [st EXCEPT !.steps = Append(@, name)]

\* console::log_1(msg); return;   (a failure aborts the sequence)
StartReturn_continues(st, msg) ==
  [st EXCEPT !.log = Append(@, msg), !.failed = << st.at >>]

StartReturn(st, msg) ==
  [st EXCEPT !.log = Append(@, msg), !.failed = << st.at >>, !.at = "returned"]

\* console::log_1(msg) and on to the step `next`
StartGoOn(st, msg, next) == [st EXCEPT !.log = Append(@, msg), !.at = next]

\* call i goes on to the state st; what it has logged on the way is written
\* to the console
StartStep(i, st) ==
  /\ local' = [calls |-> [local.calls EXCEPT ![i] = st],
               console |-> local.console \o
                             SubSeq(st.log, Len(local.calls[i].log) + 1, Len(st.log))]
  /\ pc' = IF OnThread(st) THEN st.at ELSE "event_loop"
  /\ UNCHANGED << camera, cam_guards, input, window, renderer, frame, ui_seen,
                  events, exiting, panicked, calls >>

\* a callback calls start(canvas_id): the body begins to run
start ==
  /\ pc = "event_loop"
  /\ Len(local.calls) < MaxStarts
  /\ \E id \in CanvasIds :
       local' = [local EXCEPT !.calls = Append(@, StartNew(id))]
  /\ pc' = "window"
  /\ UNCHANGED << camera, cam_guards, input, window, renderer, frame, ui_seen,
                  events, exiting, panicked, calls >>

start_window ==
  /\ pc = "window"
  /\ \E some \in BOOLEAN :
       StartStep(Current,
                 IF some
                 THEN [StartEnter(Cur, "window") EXCEPT !.at = "document"]
                 ELSE StartReturn(StartEnter(Cur, "window"), "no window()"))

start_document ==
  /\ pc = "document"
  /\ \E some \in BOOLEAN :
       StartStep(Current,
                 IF some
                 THEN [StartEnter(Cur, "document") EXCEPT !.at = "canvas"]
                 ELSE StartReturn(StartEnter(Cur, "document"), "no document()"))

\* get_element_by_id, then dyn_into::<HtmlCanvasElement>()
canvas_lookup(st) ==
  IF st.canvas_id \notin DOMAIN Elements
  THEN StartReturn(st, "no canvas with id")
  ELSE IF Elements[st.canvas_id] # "canvas"
       THEN StartReturn(st, "element is not an HtmlCanvasElement")
       ELSE StartGoOn(st, "start() called", "surface")

start_canvas ==
  /\ pc = "canvas"
  /\ StartStep(Current, canvas_lookup(StartEnter(Cur, "canvas")))

start_surface ==
  /\ pc = "surface"
  /\ \E ok \in BOOLEAN :
       StartStep(Current,
                 IF ok
                 THEN StartGoOn(StartEnter(Cur, "surface"),
                                "surface created", "adapter")
                 ELSE StartReturn(StartEnter(Cur, "surface"),
                                  "failed to create surface"))

\* match <answer of request_adapter> { Some(a) => a, None => { log; return } }
adapter_answer(st, some) ==
  IF some
  THEN StartGoOn(st, "adapter acquired", "device")
  ELSE StartReturn(st, "request_adapter() returned None")

\* instance.request_adapter(..).await: the request is issued and its future
\* polled; it is ready at once and the answer is handled, or it is pending
\* and the call is suspended with the thread back in the event loop
start_adapter ==
  /\ pc = "adapter"
  /\ \E ready \in BOOLEAN, some \in BOOLEAN :
       StartStep(Current,
                 IF ready
                 THEN adapter_answer(StartEnter(Cur, "adapter"), some)
                 ELSE [StartEnter(Cur, "adapter") EXCEPT !.pending = TRUE])

\* the adapter request of a suspended call is answered: the call is resumed
\* from the event loop and handles the answer
adapter_ready ==
  /\ pc = "event_loop"
  /\ \E i \in 1..Len(local.calls), some \in BOOLEAN :
       /\ local.calls[i].pending
       /\ local.calls[i].at = "adapter"
       /\ StartStep(i, adapter_answer([local.calls[i] EXCEPT !.pending = FALSE], some))

\* match <answer of request_device> { Ok(pair) => pair, Err(e) => { log; return } }
device_answer(st, ok) ==
  IF ok
  THEN StartGoOn(st, "device + queue acquired", "configure")
  ELSE StartReturn(st, "request_device() failed")

\* adapter.limits() and adapter.request_device(..).await, as start_adapter
start_device ==
  /\ pc = "device"
  /\ \E ready \in BOOLEAN, ok \in BOOLEAN :
       StartStep(Current,
                 IF ready
                 THEN device_answer(StartEnter(Cur, "device"), ok)
                 ELSE [StartEnter(Cur, "device") EXCEPT !.pending = TRUE])

\* the device request of a suspended call is answered
device_ready ==
  /\ pc = "event_loop"
  /\ \E i \in 1..Len(local.calls), ok \in BOOLEAN :
       /\ local.calls[i].pending
       /\ local.calls[i].at = "device"
       /\ StartStep(i, device_answer([local.calls[i] EXCEPT !.pending = FALSE], ok))

surface_configure(st, w, h, formats) ==
  IF formats = 0
  THEN StartReturn([st EXCEPT !.log = Append(@, "surface size")],
                   "no surface formats available")
  ELSE StartGoOn([st EXCEPT !.log = @ \o << "surface size", "surface format" >>,
                            !.config = << [width |-> inner_dim(w),
                                           height |-> inner_dim(h)] >>],
                 "surface configured", "pipeline")

start_configure ==
  /\ pc = "configure"
  /\ \E w \in InnerResults, h \in InnerResults, formats \in { 0, 1 } :
       StartStep(Current, surface_configure(StartEnter(Cur, "configure"), w, h, formats))

start_pipeline ==
  /\ pc = "pipeline"
  /\ StartStep(Current,
               StartGoOn([StartEnter(Cur, "pipeline") EXCEPT
                            !.log = Append(@, "shader created"),
                            !.pipeline = TRUE],
                         "pipeline created", "frame"))

draw_frame(st, ok) ==
  IF ok
  THEN StartGoOn([st EXCEPT !.log = @ \o << "got current texture", "commands encoded" >>,
                            !.submits = @ + 1, !.presents = @ + 1],
                 "triangle frame submitted", "returned")
  ELSE StartReturn(st, "get_current_texture failed")

start_frame ==
  /\ pc = "frame"
  /\ \E ok \in BOOLEAN : StartStep(Current, draw_frame(StartEnter(Cur, "frame"), ok))

NextStart ==
  \/ start
  \/ start_window \/ start_document \/ start_canvas \/ start_surface
  \/ start_adapter \/ adapter_ready \/ start_device \/ device_ready
  \/ start_configure \/ start_pipeline \/ start_frame

SpecStart == InitStart /\ [][NextStart]_vars

(***************************************************************************)
(* SpecEvents: window_event alone, from the state before resumed or from   *)
(* a state after init_window_and_renderer.  ui_seen[1] keeps the last    *)
(* event delivered: its target, the overlay's response and the state it    *)
(* met.                                                                    *)
(***************************************************************************)
Initialised(size) ==
  [window |-> << [inner_size |-> size, redraw_pending |-> FALSE] >>,
   camera |-> set_aspect(CameraNew(Dec(16, 9)), AspectOf(size[1], size[2]))]

InitEvents ==
  /\ \/ /\ window = << >>
        /\ camera = CameraNew(Dec(16, 9))
        /\ renderer = << >>
     \/ \E size \in WindowSizes :
          /\ window = Initialised(size).window
          /\ camera = Initialised(size).camera
          /\ renderer = << RendererNew(camera) >>
  /\ cam_guards = {}
  /\ input = InputStateNew
  /\ pc = "idle"
  /\ local = << >>
  /\ frame = NoFrame
  /\ ui_seen = << >>
  /\ events = 0
  /\ exiting = FALSE
  /\ panicked = FALSE
  /\ calls = 0

Met ==
  [input |-> input, camera |-> camera, renderer |-> renderer,
   window |-> window, exiting |-> exiting]

event_delivered ==
  \E target \in {"ours", "other"}, event \in WindowEvents, consumed \in BOOLEAN :
    /\ window_event_on(target, event, consumed)
    /\ ui_seen' = << [target |-> target, event |-> event,
                      consumed |-> on_window_event(event, consumed),
                      met |-> Met] >>

NextEvents == event_delivered \/ on_resize_camera

SpecEvents == InitEvents /\ [][NextEvents]_vars

(***************************************************************************)
(* Properties                                                              *)
(***************************************************************************)

\* C1: after any sequence of orbit, zoom, pan and set_aspect calls, with
\* arbitrary f32 arguments, the elevation lies within
\* [ELEVATION_MIN, ELEVATION_MAX].
C1_ElevationInRange ==
  /\ F32Le(ELEVATION_MIN, camera.elevation)
  /\ F32Le(camera.elevation, ELEVATION_MAX)

\* the same range, for a camera that was never given a NaN elevation delta
\* (f32::clamp hands a NaN value back)
ElevationInRangeOrNaN ==
  camera.elevation = NaN \/ C1_ElevationInRange

\* C2: after any sequence of camera calls the radius lies within
\* [RADIUS_MIN, RADIUS_MAX], for every zoom factor: zero, negative or huge.
C2_RadiusInRange ==
  /\ F32Le(RADIUS_MIN, camera.radius)
  /\ F32Le(camera.radius, RADIUS_MAX)

RadiusInRangeOrNaN ==
  camera.radius = NaN \/ C2_RadiusInRange


\* the meshes of a pass in the order their draws were recorded
MeshOrder(pass) == [i \in 1..Len(pass.draws) |-> pass.draws[i].mesh]

\* C3: the scene pass clears the colour and depth attachments and then draws
\* the cube, the axes, the debug markers (only if their vertex count is
\* positive) and the grid, in that order; the grid is the last draw, after
\* all opaque geometry.
C3_SceneDrawOrder ==
  frame.encoder # << >> =>
    LET pass == frame.encoder[1]
    IN  /\ pass.color_load = "Clear" /\ pass.depth_load = "Clear"
        /\ MeshOrder(pass) =
             IF renderer[1].debug.vertex_count > 0
             THEN << "cube", "axes", "debug", "grid" >>
             ELSE << "cube", "axes", "grid" >>
        /\ \A i \in 1..Len(pass.draws) :
             pass.draws[i].pipeline.blend # "REPLACE" <=> i = Len(pass.draws)

\* a scene pass with the debug markers in it has been recorded
C3_Witness ==
  /\ pc = "submit"
  /\ Len(frame.encoder[1].draws) = 4
  /\ renderer[1].debug.vertex_count = MAX_VERTS

\* C4: the cube and line pipelines write depth with compare Less, the grid
\* pipeline tests with LessEqual and does not write depth, so the depth
\* buffer is the same after the grid draw as before it.
C4_GridKeepsDepth ==
  /\ renderer # << >> =>
       /\ renderer[1].pipeline.depth_write_enabled
       /\ renderer[1].pipeline.depth_compare = "Less"
       /\ renderer[1].axes_pipeline.depth_write_enabled
       /\ renderer[1].axes_pipeline.depth_compare = "Less"
       /\ ~renderer[1].grid_pipeline.depth_write_enabled
       /\ renderer[1].grid_pipeline.depth_compare = "LessEqual"
  /\ frame.depth_trace # << >> =>
       /\ frame.encoder[1].draws[Len(frame.encoder[1].draws)].mesh = "grid"
       /\ frame.depth_trace[Len(frame.depth_trace)]
            = frame.depth_trace[Len(frame.depth_trace) - 1]

\* a frame was run in which the grid's fragment passed the depth test in
\* front of the opaque geometry
C4_Witness ==
  /\ frame.depth_trace # << >>
  /\ F32Lt(Dec(1, 8), frame.depth_trace[Len(frame.depth_trace)])
  /\ F32Lt(frame.depth_trace[Len(frame.depth_trace)], F32FromInt(1))

\* the steps of one frame, in the order of on_frame; the calls of run_ui
\* that Context::run makes come between the upload and the scene pass
FrameSteps ==
  << "apply_input", "update_camera", "scene_pass", "overlay_pass", "submit",
     "present" >>

NotUi(step) == step # "run_ui"

\* the steps a frame has made, the calls of run_ui left out
OwnSteps(f) == SelectSeq(f.steps, NotUi)

IsPrefix(s, t) == Len(s) <= Len(t) /\ \A i \in 1..Len(s) : s[i] = t[i]

\* C5: a frame applies the input to the camera, uploads the uniforms, records
\* the scene pass and then the overlay pass into one encoder, submits once
\* and presents once, in this order and each once; end_frame clears the
\* input deltas only after all of that.
C5_FrameOrder ==
  /\ [](/\ IsPrefix(OwnSteps(frame), FrameSteps)
        /\ \A i \in 1..Len(frame.steps) :
             frame.steps[i] = "run_ui" =>
               i > 2 /\ \A j \in (i + 1)..Len(frame.steps) :
                           frame.steps[j] \notin {"apply_input", "update_camera"}
        /\ \A i \in 1..Len(frame.steps) :
             frame.steps[i] = "scene_pass" =>
               \A j \in (i + 1)..Len(frame.steps) : frame.steps[j] # "run_ui"
        /\ frame.submits <= 1 /\ frame.presents <= 1
        /\ frame.submits = (IF Len(OwnSteps(frame)) >= 5 THEN 1 ELSE 0)
        /\ frame.presents = (IF Len(OwnSteps(frame)) = 6 THEN 1 ELSE 0)
        /\ frame.encoder # << >> =>
             /\ Len(frame.encoder) = 2
             /\ frame.encoder[1].label = "Render Pass"
             /\ frame.encoder[2].label = "Egui Pass")
  /\ [][pc # "idle" /\ input' # input =>
          /\ OwnSteps(frame) = FrameSteps
          /\ input' = end_frame(input)
          /\ pc' = "idle"]_vars

\* a frame with pending input deltas has been presented and is about to
\* call end_frame
C5_Witness ==
  /\ pc = "end_frame"
  /\ OwnSteps(frame) = FrameSteps
  /\ input.mouse_dx # 0 /\ input.scroll # 0

ZeroSize(size) == size[1] = 0 \/ size[2] = 0

\* C6: a resize to a size with a zero width or height does nothing: the
\* camera (its aspect), the renderer (surface configuration, depth buffer,
\* uniforms) stay as they are and no redraw is requested.
C6_ZeroResizeNoOp ==
  [][(events' # events /\ window # << >> /\ window' # << >>
        /\ ZeroSize(window'[1].inner_size))
       => /\ camera' = camera
          /\ renderer' = renderer
          /\ cam_guards' = cam_guards
          /\ pc' = "idle"
          /\ window'[1].redraw_pending = window[1].redraw_pending]_vars

\* a Resized event with a zero height has been taken while the renderer
\* was there
C6_Witness ==
  /\ window # << >> /\ renderer # << >>
  /\ window[1].inner_size = << 1024, 0 >>
  /\ renderer[1].config = configure_surface
  /\ pc = "idle"

\* C7: a resize to a size with both dimensions positive, while the renderer
\* is there, sets the surface configuration to that size, rebuilds the depth
\* buffer at that size, sets the aspect to width / height and uploads the
\* uniforms again; the depth buffer always has the size of the surface
\* configuration, also after the reconfiguration of a failed acquisition.
C7_ResizeTracksSize ==
  /\ [](renderer # << >> =>
          /\ renderer[1].depth = DepthResourcesCreate(renderer[1].config)
          /\ renderer[1].surface = renderer[1].config)
  /\ [][\A event \in WindowEvents :
          (/\ event.type = "Resized"
           /\ ~ZeroSize(<< event.width, event.height >>)
           /\ window # << >> /\ renderer # << >>
           /\ window_event_on("ours", event, FALSE))
          => /\ window'[1].inner_size = << event.width, event.height >>
             /\ renderer'[1].config = [width |-> event.width,
                                       height |-> event.height]
             /\ renderer'[1].depth = [width |-> event.width,
                                      height |-> event.height]
             /\ pc' = "on_resize"
             /\ local' = << renderer'[1].config >>]_vars
  /\ [][pc = "on_resize" =>
          /\ camera'.aspect = AspectOf(local[1].width, local[1].height)
          /\ renderer' = << update_camera(renderer[1], camera') >>
          /\ renderer'[1].config = local[1]
          /\ window'[1].redraw_pending]_vars

\* a resize to 1024 x 768 has been carried out in full
C7_Witness ==
  /\ renderer # << >> /\ pc = "idle"
  /\ renderer[1].config = [width |-> 1024, height |-> 768]
  /\ renderer[1].depth = [width |-> 1024, height |-> 768]
  /\ camera.aspect = AspectOf(1024, 768)
  /\ renderer[1].camera_buffer.view_proj.proj.aspect = camera.aspect

\* C8: the aspect of the camera is strictly positive in every reachable
\* state: every set_aspect the application makes, the one at window creation
\* included, is made with both dimensions non-zero.
C8_AspectPositive == F32Gt(camera.aspect, 0)

\* C9: Renderer::render tries to acquire the frame at most twice, with at
\* most one reconfiguration of the surface in between; a second failure is
\* fatal and that frame is neither submitted nor presented.
C9_AcquireAtMostTwice ==
  /\ frame.acquires <= 2
  /\ frame.configures = (IF frame.acquires = 2 THEN 1 ELSE 0)
  /\ (frame.acquires = 2 /\ ~frame.acquired) => panicked
  /\ (panicked /\ renderer # << >>) =>
        /\ frame.acquires = 2 /\ ~frame.acquired
        /\ frame.submits = 0 /\ frame.presents = 0
        /\ frame.encoder = << >>
  /\ frame.submits > 0 => frame.acquired

\* the acquisition failed twice and the application panicked
C9_Witness ==
  /\ panicked
  /\ frame.acquires = 2 /\ frame.configures = 1
  /\ OwnSteps(frame) = << "apply_input", "update_camera" >>

\* C10: every access to the camera is made under its mutex, which one holder
\* has at a time; the mutation of a frame is finished and its guard dropped
\* before the overlay locks the camera and reads it, so the overlay shows
\* the camera as it is after the frame's input.
C10_CameraUnderMutex ==
  /\ [](/\ Cardinality(cam_guards) <= 1
        /\ pc = "run_ui" =>
             /\ cam_guards = {"run_ui"}
             /\ OwnSteps(frame) = << "apply_input", "update_camera" >>
             /\ renderer[1].camera_buffer = CameraUniformFromCamera(camera))
  /\ [][/\ camera' # camera => cam_guards # {}
        /\ (renderer # << >> /\ renderer' # << >>
              /\ renderer'[1].camera_buffer # renderer[1].camera_buffer)
             => cam_guards # {}
        /\ (renderer = << >> /\ renderer' # << >>) => cam_guards = {"init_renderer"}
        /\ (ui_seen' # ui_seen /\ ui_seen' # << >>) =>
             /\ cam_guards = {"run_ui"}
             /\ ui_seen' = << Telemetry(camera, renderer[1]) >>]_vars

\* the overlay has shown a camera that the frame's input had moved
C10_Witness ==
  /\ pc = "acquire"
  /\ UiPasses(frame) > 0
  /\ ui_seen # << >>
  /\ ui_seen[1].elevation # FRAC_PI_6
  /\ ui_seen[1].elevation = camera.elevation

\* C11: between two end_frame calls scroll is the sum of the wheel deltas
\* received, line or pixel; end_frame sets mouse_dx, mouse_dy and scroll to
\* zero and leaves the held flags, the shift flag and the pointer position
\* as they were.
C11_ScrollSumAndReset ==
  /\ [](input.scroll = F32FromInt(local[1].wheel))
  /\ [][local'[1].frames # local[1].frames =>
          /\ input'.mouse_dx = 0 /\ input'.mouse_dy = 0 /\ input'.scroll = 0
          /\ input'.left_held = input.left_held
          /\ input'.middle_held = input.middle_held
          /\ input'.right_held = input.right_held
          /\ input'.shift_held = input.shift_held
          /\ input'.mouse_x = input.mouse_x
          /\ input'.mouse_y = input.mouse_y]_vars

\* two wheel events of different kinds summed in a second frame
C11_Witness ==
  /\ local[1].frames = 1
  /\ local[1].wheel = 4
  /\ input.scroll = F32FromInt(4)

\* C12: each of left_held, middle_held, right_held is true exactly when the
\* last handled MouseInput event for that button was a press, over any number
\* of frames, and an event for one button leaves the other flags alone.
C12_HeldIsLastPress ==
  /\ [](/\ input.left_held = (local[1].last["Left"] = "Pressed")
        /\ input.middle_held = (local[1].last["Middle"] = "Pressed")
        /\ input.right_held = (local[1].last["Right"] = "Pressed"))
  /\ [][/\ local'[1].last["Left"] = local[1].last["Left"]
           => input'.left_held = input.left_held
        /\ local'[1].last["Middle"] = local[1].last["Middle"]
           => input'.middle_held = input.middle_held
        /\ local'[1].last["Right"] = local[1].last["Right"]
           => input'.right_held = input.right_held]_vars

\* a press held over a frame while another button was pressed and released
C12_Witness ==
  /\ local[1].frames >= 1
  /\ input.left_held
  /\ ~input.right_held
  /\ local[1].last["Right"] = "Released"
  /\ local[1].last["Middle"] = "None"

\* the whole of apply_input_to_camera has been applied to local[1].before
Whole == local[1].done = << "orbit", "pan", "zoom" >>
PointerMoved == ~(F32Eq(input.mouse_dx, 0) /\ F32Eq(input.mouse_dy, 0))
AnglesChanged ==
  \/ camera.azimuth # local[1].before.azimuth
  \/ camera.elevation # local[1].before.elevation

\* C13 as stated: apply_input_to_camera changes azimuth or elevation if and
\* only if the right button is held and the pointer delta is non-zero.
C13_OrbitIffHeldAndMoved ==
  Whole => (AnglesChanged <=> (input.right_held /\ PointerMoved))

\* C13, amended: apply_input_to_camera changes azimuth or elevation only if
\* the right button is held and the pointer delta is non-zero; in that case
\* the azimuth is the old one plus -dx * ORBIT_SENSITIVITY and the elevation
\* is clamp(old + dy * ORBIT_SENSITIVITY, ELEVATION_MIN, ELEVATION_MAX),
\* which at the end of the range may be the old elevation.
C13_OrbitOnlyIfHeldAndMoved ==
  Whole =>
    /\ AnglesChanged => (input.right_held /\ PointerMoved)
    /\ (input.right_held /\ PointerMoved) =>
         /\ camera.azimuth =
              F32Add(local[1].before.azimuth,
                     F32Neg(F32Mul(input.mouse_dx, ORBIT_SENSITIVITY)))
         /\ camera.elevation =
              F32Clamp(F32Add(local[1].before.elevation,
                              F32Mul(input.mouse_dy, ORBIT_SENSITIVITY)),
                       ELEVATION_MIN, ELEVATION_MAX)
         /\ F32Le(ELEVATION_MIN, camera.elevation)
         /\ F32Le(camera.elevation, ELEVATION_MAX)

\* a drag with the right button that turned and raised the camera
C13_Witness ==
  /\ Whole
  /\ input.right_held /\ ~input.middle_held
  /\ F32Lt(camera.azimuth, local[1].before.azimuth)
  /\ F32Gt(camera.elevation, local[1].before.elevation)
  /\ F32Lt(camera.elevation, ELEVATION_MAX)

TargetChanged == camera.target # local[1].before.target

\* the camera apply_pan starts from: the one apply_orbit has left
Orbited(cam) ==
  IF input.right_held /\ PointerMoved
  THEN orbit(cam, F32Neg(F32Mul(input.mouse_dx, ORBIT_SENSITIVITY)),
             F32Mul(input.mouse_dy, ORBIT_SENSITIVITY))
  ELSE cam

\* the pan amount for a pointer delta d at radius r
PanAmount(d, r) == F32Mul(d, F32Mul(r, PAN_SENSITIVITY))

\* C14 as stated: apply_input_to_camera changes the target if and only if
\* the middle button is held and the pointer delta is non-zero.
C14_PanIffHeldAndMoved ==
  Whole => (TargetChanged <=> (input.middle_held /\ PointerMoved))

\* C14, amended: apply_input_to_camera changes the target only if the middle
\* button is held and the pointer delta is non-zero; the amounts passed to
\* Camera::pan are then -dx and dy times radius * PAN_SENSITIVITY, and for a
\* camera whose target is the origin, twice the radius gives twice the
\* displacement for the same pointer delta.
C14_PanOnlyIfHeldAndMoved ==
  Whole =>
    /\ TargetChanged => (input.middle_held /\ PointerMoved)
    /\ (input.middle_held /\ PointerMoved) =>
         /\ camera.target =
              pan(Orbited(local[1].before),
                  F32Neg(PanAmount(input.mouse_dx, local[1].before.radius)),
                  PanAmount(input.mouse_dy, local[1].before.radius)).target
         /\ local[1].before.target = V3Zero =>
              apply_pan(input, apply_orbit(input,
                  [local[1].before EXCEPT
                     !.radius = F32Mul(@, F32FromInt(2))])).target
              = V3Scale(camera.target, F32FromInt(2))

\* a drag with the middle button at radius 40 that moved the target off the
\* origin
C14_Witness ==
  /\ Whole
  /\ input.middle_held /\ ~input.right_held
  /\ local[1].before.radius = F32FromInt(40)
  /\ local[1].before.target = V3Zero
  /\ camera.target[1] # 0
  /\ camera.target[3] # 0

\* C15: zoom is applied whenever the scroll is non-zero, whatever buttons
\* are held, with factor 1 - scroll * ZOOM_FACTOR; a positive scroll never
\* increases the radius and a scroll of 1 / ZOOM_FACTOR or more brings it to
\* RADIUS_MIN; a negative scroll never decreases the radius.
C15_ZoomByScroll ==
  Whole =>
    /\ F32Eq(input.scroll, 0) => camera.radius = local[1].before.radius
    /\ ~F32Eq(input.scroll, 0) =>
         camera.radius =
           F32Clamp(F32Mul(local[1].before.radius,
                           F32Sub(F32FromInt(1), F32Mul(input.scroll, ZOOM_FACTOR))),
                    RADIUS_MIN, RADIUS_MAX)
    /\ F32Gt(input.scroll, 0) => F32Le(camera.radius, local[1].before.radius)
    /\ F32Le(F32Div(F32FromInt(1), ZOOM_FACTOR), input.scroll) =>
         camera.radius = RADIUS_MIN
    /\ F32Lt(input.scroll, 0) => F32Le(local[1].before.radius, camera.radius)

\* a scroll of exactly 1 / ZOOM_FACTOR, with all three buttons held while
\* the pointer moved, took the radius from 20 to RADIUS_MIN
C15_Witness ==
  /\ Whole
  /\ input.scroll = F32FromInt(10)
  /\ input.left_held /\ input.middle_held /\ input.right_held
  /\ PointerMoved
  /\ local[1].before.radius = F32FromInt(20)
  /\ camera.radius = RADIUS_MIN

\* C16: for every input snapshot and every valid camera, the three
\* sub-mappings applied in any of their six orders give the camera that
\* apply_input_to_camera gives (target, radius, azimuth, elevation).
C16_OrderInsensitive ==
  Len(local[1].done) = 3 =>
    /\ camera.target = apply_input_to_camera(input, local[1].before).target
    /\ camera.radius = apply_input_to_camera(input, local[1].before).radius
    /\ camera.azimuth = apply_input_to_camera(input, local[1].before).azimuth
    /\ camera.elevation = apply_input_to_camera(input, local[1].before).elevation

\* what does hold: the three sub-mappings commute when at most one of them
\* is active, and orbit and zoom always commute
C16_CommuteWhenAlone ==
  (/\ Len(local[1].done) = 3
   /\ ~(input.middle_held /\ PointerMoved
        /\ (input.right_held \/ ~F32Eq(input.scroll, 0)))) =>
    /\ camera.target = apply_input_to_camera(input, local[1].before).target
    /\ camera.radius = apply_input_to_camera(input, local[1].before).radius
    /\ camera.azimuth = apply_input_to_camera(input, local[1].before).azimuth
    /\ camera.elevation = apply_input_to_camera(input, local[1].before).elevation

\* the powers of ten from 10^-4 to 10^8, the decades of the radius range
PowersOfTen ==
  { Dec(1, 10000), Dec(1, 1000), Dec(1, 100), Dec(1, 10), F32FromInt(1),
    F32FromInt(10), F32FromInt(100), F32FromInt(1000), F32FromInt(10000),
    F32FromInt(100000), F32FromInt(1000000), F32FromInt(10000000),
    F32FromInt(100000000) }

\* C17: in every state with a renderer, the grid LOD scale it holds is an
\* exact power of ten and the LOD fade it holds lies in [0, 1); the overlay
\* reports these values.
C17_GridLodInRange ==
  /\ renderer # << >> =>
       /\ renderer[1].grid_lod_scale \in PowersOfTen
       /\ F32Le(0, renderer[1].grid_lod_fade)
       /\ F32Lt(renderer[1].grid_lod_fade, F32FromInt(1))
  /\ ui_seen # << >> =>
       /\ ui_seen[1].lod_scale \in PowersOfTen
       /\ F32Le(0, ui_seen[1].lod_fade)
       /\ F32Lt(ui_seen[1].lod_fade, F32FromInt(1))

\* what the renderer does hold: scale 1.0 and fade 1.0 from Renderer::new
\* on, whatever the radius
GridLodNeverUpdated ==
  renderer # << >> =>
    /\ renderer[1].grid_lod_scale = F32FromInt(1)
    /\ renderer[1].grid_lod_fade = F32FromInt(1)

\* the debug mesh holds a vertex of the connecting line's colour
HasConnectingLine(d) ==
  \E i \in 1..Len(d.vertices) : SubSeq(d.vertices[i], 4, 6) = COL_CONNECT

\* C18: after every DebugMesh::update the connecting line from the target to
\* its ground projection is in the mesh exactly when |target.z| > Z_THRESHOLD;
\* the vertex count is 6 for a target on the ground plane and 14 for a
\* target offset by 1.0, and never more than MAX_VERTS.
C18_ConnectingLine ==
  /\ renderer[1].debug.vertex_count = Len(renderer[1].debug.vertices)
  /\ renderer[1].debug.vertex_count <= MAX_VERTS
  /\ HasConnectingLine(renderer[1].debug)
       <=> F32Gt(Abs(local[1].uploaded.target[3]), Z_THRESHOLD)
  /\ HasConnectingLine(renderer[1].debug) =>
       /\ renderer[1].debug.vertex_count = 14
       /\ renderer[1].debug.vertices[13]
            = local[1].uploaded.target \o COL_CONNECT
       /\ renderer[1].debug.vertices[14]
            = << local[1].uploaded.target[1], local[1].uploaded.target[2], 0 >>
              \o COL_CONNECT
  /\ ~HasConnectingLine(renderer[1].debug) => renderer[1].debug.vertex_count = 6
  /\ local[1].uploaded.target[3] = 0 => renderer[1].debug.vertex_count = 6
  /\ Abs(local[1].uploaded.target[3]) = F32FromInt(1) =>
       renderer[1].debug.vertex_count = 14

\* an update for a target 1.0 above the ground plane, after a camera call
C18_Witness ==
  /\ local[1].log # << >>
  /\ local[1].uploaded = camera
  /\ camera.target[3] = F32FromInt(1)
  /\ renderer[1].debug.vertex_count = 14
  /\ HasConnectingLine(renderer[1].debug)

\* the calls of the end-to-end scenario: orbit(0.1, 0), zoom(2.0), zoom(1e12)
Scenario ==
  << [name |-> "orbit", args |-> << Dec(1, 10), 0 >>],
     [name |-> "zoom", args |-> << F32FromInt(2) >>],
     [name |-> "zoom", args |-> << F32Mul(F32FromInt(1000000), F32FromInt(1000000)) >>] >>

\* the run started from the default camera and has made exactly the first n
\* calls of the scenario
InScenario(n) ==
  /\ local[1].start = CameraNew(Dec(16, 9))
  /\ Len(local[1].log) = n
  /\ \A i \in 1..n : /\ local[1].log[i].name = Scenario[i].name
                     /\ local[1].log[i].args = Scenario[i].args

\* C19: from the default camera (radius 20, azimuth -pi/4, elevation pi/6),
\* orbit(0.1, 0) gives an azimuth within 0.0001 of -0.6854 and the same
\* elevation; zoom(2.0) then gives radius 40; zoom(1e12) then gives exactly
\* RADIUS_MAX.
C19_EndToEnd ==
  /\ InScenario(0) =>
       /\ camera.radius = F32FromInt(20)
       /\ camera.azimuth = F32Neg(FRAC_PI_4)
       /\ camera.elevation = FRAC_PI_6
  /\ InScenario(1) =>
       /\ F32Le(Abs(F32Add(camera.azimuth, Dec(6854, 10000))), Dec(1, 10000))
       /\ camera.elevation = FRAC_PI_6
       /\ camera.radius = F32FromInt(20)
  /\ InScenario(2) =>
       /\ camera.radius = F32FromInt(40)
       /\ F32Le(RADIUS_MIN, camera.radius) /\ F32Le(camera.radius, RADIUS_MAX)
       /\ camera.elevation = FRAC_PI_6
  /\ InScenario(3) =>
       /\ camera.radius = RADIUS_MAX
       /\ camera.radius = F32FromInt(100000000)
       /\ F32IsFinite(F32Mul(F32FromInt(40), Scenario[3].args[1]))
       /\ F32Le(Abs(F32Add(camera.azimuth, Dec(6854, 10000))), Dec(1, 10000))
       /\ camera.elevation = FRAC_PI_6

\* the scenario run to its end
C19_Witness ==
  /\ InScenario(3)
  /\ camera.radius = RADIUS_MAX
  /\ camera.azimuth # F32Neg(FRAC_PI_4)

\* a camera within the ranges the camera keeps, with a finite target
ValidCamera(cam) ==
  /\ \A i \in 1..3 : F32IsFinite(cam.target[i])
  /\ F32Le(RADIUS_MIN, cam.radius) /\ F32Le(cam.radius, RADIUS_MAX)
  /\ F32Le(ELEVATION_MIN, cam.elevation) /\ F32Le(cam.elevation, ELEVATION_MAX)
  /\ F32IsFinite(cam.azimuth)

\* the camera after the i-th call of the log
AfterCall(i) ==
  IF i < Len(local[1].log) THEN local[1].log[i + 1].before ELSE camera

Forward(cam) == V3Normalize(V3Sub(cam.target, eye_position(cam)))
Right(cam) == compute_right(eye_position(cam), cam.target)
Up(cam) == compute_up(eye_position(cam), cam.target, Right(cam))

\* |x| <= 1/1000, false for NaN
Small(x) == F32Le(Abs(x), Dec(1, 1000))
SmallVec(v) == Small(v[1]) /\ Small(v[2]) /\ Small(v[3])

\* the displacement d of a pan by (dx, dy) from camera b lies along right
\* (dy = 0) or along up (dx = 0) and is orthogonal to forward
PanDisplacement(b, d, dx, dy) ==
  /\ Small(V3Dot(d, Forward(b)))
  /\ dy = 0 => /\ SmallVec(V3Sub(d, V3Scale(Right(b), dx)))
               /\ Small(V3Dot(d, Up(b)))
  /\ dx = 0 => /\ SmallVec(V3Sub(d, V3Scale(Up(b), dy)))
               /\ Small(V3Dot(d, Right(b)))

PanCalls ==
  { i \in 1..Len(local[1].log) : local[1].log[i].name = "pan" }

\* C20: for every valid camera, pan(dx, 0) displaces the target along the
\* right vector only and pan(0, dy) along the up vector only, and both
\* displacements are orthogonal to forward, the direction from eye to target
\* (each within 1/1000 for a pan by one unit).
C20_PanAlongRightAndUp ==
  \A i \in PanCalls :
    ValidCamera(local[1].log[i].before) =>
      PanDisplacement(local[1].log[i].before,
                      V3Sub(AfterCall(i).target, local[1].log[i].before.target),
                      local[1].log[i].args[1], local[1].log[i].args[2])

\* what does hold: the same for the runs that do not start from FarAndClose,
\* where the eye is told apart from the target in both horizontal components
PanAlongRightAndUpNearOrigin ==
  local[1].start # FarAndClose => C20_PanAlongRightAndUp

\* for a valid camera whose radius is below the f32 spacing at its target,
\* pan makes the target NaN
PanLosesTarget ==
  \A i \in PanCalls :
    local[1].log[i].before = FarAndClose =>
      /\ ValidCamera(FarAndClose)
      /\ AfterCall(i).target = << NaN, NaN, NaN >>


StepIndex(name) == CHOOSE i \in 1..Len(StartOrder) : StartOrder[i] = name

Count(seq, x) == Cardinality({ i \in 1..Len(seq) : seq[i] = x })

FailureMessages ==
  { "no window()", "no document()", "no canvas with id",
    "element is not an HtmlCanvasElement", "failed to create surface",
    "request_adapter() returned None", "request_device() failed",
    "no surface formats available", "get_current_texture failed" }

\* a call suspended at an .await: its last step begun is the request it
\* waits for, and nothing after the request has happened
SuspendedAtRequest(st) ==
  /\ st.at \in { "adapter", "device" }
  /\ st.steps # << >>
  /\ st.steps[Len(st.steps)] = st.at
  /\ st.failed = << >>
  /\ st.config = << >>
  /\ ~st.pipeline
  /\ st.submits = 0

\* one call of start(): its steps in order, each request at most once, and
\* after a failure nothing more
AbortsOnFailure(st) ==
  /\ IsPrefix(st.steps, StartOrder)
  /\ Count(st.steps, "adapter") <= 1
  /\ Count(st.steps, "device") <= 1
  /\ st.pending => SuspendedAtRequest(st)
  /\ st.failed # << >> =>
       /\ st.at = "returned"
       /\ ~st.pending
       /\ st.log # << >>
       /\ st.log[Len(st.log)] \in FailureMessages
       /\ \E k \in 1..Len(local.console) : local.console[k] = st.log[Len(st.log)]
       /\ st.steps[Len(st.steps)] = st.failed[1]
       /\ StepIndex(st.failed[1]) <= StepIndex("device") =>
            /\ st.config = << >>
            /\ ~st.pipeline
            /\ st.submits = 0
  /\ st.config # << >> => Len(st.steps) >= StepIndex("configure")
  /\ st.pipeline => st.config # << >>
  /\ st.submits > 0 => st.pipeline

\* C21: every call of start() runs its steps once each in the fixed order,
\* also when it is suspended at a request and another call runs meanwhile;
\* when a lookup, the surface creation, the adapter request or the device
\* request fails, the failure is the last thing the call logged and is on
\* the console, the call has returned, the failing step is the last step
\* begun, and nothing was configured, no pipeline was created and no frame
\* was submitted; adapter and device are each requested at most once; at
\* most one call holds the thread.
C21_StartupAbortsOnFailure ==
  /\ \A i \in 1..Len(local.calls) : AbortsOnFailure(local.calls[i])
  /\ Cardinality({ i \in 1..Len(local.calls) : OnThread(local.calls[i]) }) <= 1
  /\ (pc = "event_loop") = (\A i \in 1..Len(local.calls) : ~OnThread(local.calls[i]))

\* the first call was suspended at its adapter request, a second call began
\* meanwhile, and the first call's device request then failed
C21_Witness ==
  /\ Len(local.calls) = 2
  /\ local.calls[1].at = "returned"
  /\ local.calls[1].failed = << "device" >>
  /\ local.calls[1].steps = SubSeq(StartOrder, 1, 6)
  /\ Len(local.console) >= 4
  /\ SubSeq(local.console, 1, 4) =
       << "start() called", "surface created", "start() called", "surface created" >>
  /\ local.calls[2].submits = 1


\* the points of on_frame inside Renderer::render
InRender == pc \in { "acquire", "reacquire", "record", "submit" }

\* C22: whenever Renderer::render runs, the camera uniform, the grid uniform
\* and the debug markers held by the renderer are the ones computed from the
\* camera as it is at that moment: they are at the call of render, and
\* from one point of render to the next neither the camera nor any of the
\* three changes.
C22_UploadedFromCurrentCamera ==
  /\ [](pc = "acquire" =>
          /\ renderer # << >>
          /\ renderer[1].camera_buffer = CameraUniformFromCamera(camera)
          /\ renderer[1].grid_buffer = GridUniformFromCamera(camera)
          /\ renderer[1].debug = DebugMeshUpdate(camera))
  /\ [][InRender =>
          /\ pc' \in { "reacquire", "record", "submit", "end_frame", "idle" }
          /\ renderer' # << >>
          /\ camera' = camera
          /\ renderer'[1].camera_buffer = renderer[1].camera_buffer
          /\ renderer'[1].grid_buffer = renderer[1].grid_buffer
          /\ renderer'[1].debug = renderer[1].debug]_vars

\* a frame is submitted after a resize changed the aspect and a drag changed
\* the angles
C22_Witness ==
  /\ pc = "submit"
  /\ renderer[1].config = [width |-> 1024, height |-> 768]
  /\ camera.aspect = AspectOf(1024, 768)
  /\ camera.azimuth # CameraNew(Dec(16, 9)).azimuth


\* the pointer's displacement since the last end_frame
FrameDisplacement ==
  << F32Sub(input.mouse_x, local[1].anchor[1]),
     F32Sub(input.mouse_y, local[1].anchor[2]) >>

\* C23: between two end_frame calls (mouse_dx, mouse_dy) is the displacement
\* of the pointer from its position at the last end_frame to its latest
\* position, however many pointer moves were handled.
C23_PointerMotionAccumulates ==
  local[1].moves >= 1 =>
    << input.mouse_dx, input.mouse_dy >> = FrameDisplacement

\* (what holds: with at most one pointer move since end_frame the delta is the
\* frame's displacement)
DeltaOfSingleMove ==
  local[1].moves = 1 =>
    << input.mouse_dx, input.mouse_dy >> = FrameDisplacement

\* two pointer moves in one frame
TwoMovesInFrame ==
  /\ local[1].moves = 2
  /\ << input.mouse_dx, input.mouse_dy >> # FrameDisplacement


\* C24: whenever Renderer::render runs, the configured surface width and
\* height are the window's inner size (the 800x600 of configure_surface was
\* replaced by on_resize before the frame).
C24_RenderAtWindowSize ==
  InRender =>
    /\ renderer[1].config.width = window[1].inner_size[1]
    /\ renderer[1].config.height = window[1].inner_size[2]

\* a frame rendered at the initial 800x600 in a window of another size that
\* no resize event was handled for
RenderBeforeResize ==
  /\ InRender
  /\ events = 0
  /\ renderer[1].config = configure_surface
  /\ window[1].inner_size # << 800, 600 >>


\* the points at which the running code is about to lock the camera
AtLock == pc \in { "init_lock", "run_ui_lock" }

\* C25: the camera mutex is requested only when no guard is alive: between
\* handlers, before the second lock of init_window_and_renderer and before the
\* lock of every call of run_ui no guard is held, at most one guard is ever
\* alive, and the code waiting at a lock can take it.
C25_LockRequestedOnlyWhenFree ==
  /\ Cardinality(cam_guards) <= 1
  /\ (pc = "idle" \/ AtLock) => cam_guards = {}
  /\ pc = "init_lock" => ENABLED init_lock
  /\ (pc = "run_ui_lock" /\ UiPasses(frame) < MaxUiPasses) => ENABLED run_ui_lock

\* the second call of run_ui in one frame holds the camera, in a frame that
\* follows a handled resize
C25_Witness ==
  /\ pc = "run_ui"
  /\ cam_guards = { "run_ui" }
  /\ frame.steps = << "apply_input", "update_camera", "run_ui" >>
  /\ camera.aspect = AspectOf(1024, 768)
  /\ renderer[1].config = [width |-> 1024, height |-> 768]


\* the last event delivered was for another window, or came when there was no
\* window, or was consumed by the overlay
LastEventIgnored ==
  /\ ui_seen # << >>
  /\ \/ ui_seen[1].target # "ours"
     \/ ui_seen[1].met.window = << >>
     \/ ui_seen[1].consumed

\* C26: an event that does not target the application's own existing window,
\* or that the overlay consumed, changes nothing: InputState, camera and
\* renderer are as the event met them, no resize handling has begun, no
\* redraw and no exit was requested by it.
C26_IgnoredEventChangesNothing ==
  LastEventIgnored =>
    /\ input = ui_seen[1].met.input
    /\ camera = ui_seen[1].met.camera
    /\ renderer = ui_seen[1].met.renderer
    /\ (window = << >>) = (ui_seen[1].met.window = << >>)
    /\ window # << >> =>
         window[1].redraw_pending = ui_seen[1].met.window[1].redraw_pending
    /\ exiting = ui_seen[1].met.exiting
    /\ pc = "idle"
    /\ cam_guards = {}

\* the release of the held left button was consumed by the overlay
C26_Witness ==
  /\ ui_seen # << >>
  /\ ui_seen[1].target = "ours"
  /\ ui_seen[1].consumed
  /\ ui_seen[1].event = [type |-> "MouseInput", button |-> "Left", state |-> "Released"]
  /\ ui_seen[1].met.input.left_held
  /\ input.left_held


\* nothing recorded is waiting to be applied
NoDeltas(in) == in.mouse_dx = 0 /\ in.mouse_dy = 0 /\ in.scroll = 0

Pose(cam) == << cam.target, cam.radius, cam.azimuth, cam.elevation >>

\* C27: a completed on_frame leaves no pointer delta and no scroll behind;
\* nothing but a window event brings one; and an on_frame that finds none
\* leaves target, radius, azimuth and elevation as they are, whatever buttons
\* are held.  So what was recorded is applied in one frame only.
C27_AppliedInOneFrame ==
  /\ [][(pc = "end_frame" /\ pc' = "idle") => NoDeltas(input')]_vars
  /\ [][(NoDeltas(input) /\ events' = events) => NoDeltas(input')]_vars
  /\ [][(pc = "on_frame" /\ pc' # "on_frame" /\ NoDeltas(input))
          => Pose(camera') = Pose(camera)]_vars

\* the frame after the one that applied a drag has applied its input, the
\* right button still held
C27_Witness ==
  /\ pc = "run_ui_lock"
  /\ input.right_held
  /\ NoDeltas(input)
  /\ camera.azimuth # CameraNew(Dec(16, 9)).azimuth
  /\ events = 2


\* the fields of cam other than those in `own` are the same in after
OnlyChanged(cam, after, own) ==
  \A f \in DOMAIN cam \ own : after[f] = cam[f]

\* where the eye is, seen from the target
EyeOffset(cam) == eye_position([cam EXCEPT !.target = V3Zero])

\* component i of the eye does not move against component i of the target
\* between the cameras cam and after
EyeFollows(cam, after, i) ==
  /\ F32Le(cam.target[i], after.target[i]) =>
       \/ F32Le(eye_position(cam)[i], eye_position(after)[i])
       \/ eye_position(after)[i] = eye_position(cam)[i]
  /\ F32Le(after.target[i], cam.target[i]) =>
       \/ F32Le(eye_position(after)[i], eye_position(cam)[i])
       \/ eye_position(after)[i] = eye_position(cam)[i]

\* C28 as stated: orbit changes azimuth and elevation only, and the new
\* azimuth is the old one plus the delta, neither clamped nor wrapped; zoom
\* changes the radius only; pan changes the target only and the eye moves by
\* the same vector as the target; set_aspect changes the aspect only;
\* nothing changes fovy.
C28_EyeMovesAsTarget ==
  [][
     /\ \A a \in OrbitArgs :
          camera' = orbit(camera, a[1], a[2]) =>
            /\ OnlyChanged(camera, camera', { "azimuth", "elevation" })
            /\ camera'.azimuth = F32Add(camera.azimuth, a[1])
     /\ \A f \in ZoomArgs :
          camera' = zoom(camera, f) => OnlyChanged(camera, camera', { "radius" })
     /\ \A a \in PanArgs :
          camera' = pan(camera, a[1], a[2]) =>
            /\ OnlyChanged(camera, camera', { "target" })
            /\ V3Sub(eye_position(camera'), eye_position(camera))
                 = V3Sub(camera'.target, camera.target)
     /\ \A a \in AspectArgs :
          camera' = set_aspect(camera, a) =>
            /\ OnlyChanged(camera, camera', { "aspect" })
            /\ camera'.aspect = a
     /\ camera'.fovy = camera.fovy
  ]_vars

\* C28, amended: orbit changes azimuth and elevation only, and the new
\* azimuth is the old one plus the delta, neither clamped nor wrapped; zoom
\* changes the radius only; pan changes the target only, and in no component
\* does the eye move against the target (the f32 sum target + offset may
\* round the displacement away or change its size); set_aspect changes the
\* aspect only; nothing changes fovy.
C28_OwnFieldsOnly ==
  [][
     /\ \A a \in OrbitArgs :
          camera' = orbit(camera, a[1], a[2]) =>
            /\ OnlyChanged(camera, camera', { "azimuth", "elevation" })
            /\ camera'.azimuth = F32Add(camera.azimuth, a[1])
     /\ \A f \in ZoomArgs :
          camera' = zoom(camera, f) => OnlyChanged(camera, camera', { "radius" })
     /\ \A a \in PanArgs :
          camera' = pan(camera, a[1], a[2]) =>
            /\ OnlyChanged(camera, camera', { "target" })
            /\ \A i \in 1..3 : EyeFollows(camera, camera', i)
     /\ \A a \in AspectArgs :
          camera' = set_aspect(camera, a) =>
            /\ OnlyChanged(camera, camera', { "aspect" })
            /\ camera'.aspect = a
     /\ camera'.fovy = camera.fovy
  ]_vars

\* the azimuth has gone round more than a full turn and a pan has moved the
\* target and the eye with it
C28_Witness ==
  /\ F32Gt(camera.azimuth, F32Mul(FRAC_PI_2, F32FromInt(4)))
  /\ camera.target # V3Zero
  /\ eye_position(camera) # EyeOffset(camera)
  /\ camera.fovy = FRAC_PI_4
  /\ calls = 3


RadiusInRange(cam) ==
  F32Le(RADIUS_MIN, cam.radius) /\ F32Le(cam.radius, RADIUS_MAX)

\* C29: for the camera the uniforms were last computed from, its radius
\* within [RADIUS_MIN, RADIUS_MAX], the clip planes and the grid's fade
\* distances are in order: 0 < znear < zfar and 0 < fade_near < fade_far.
C29_RangesOrdered ==
  RadiusInRange(local[1].uploaded) =>
    /\ F32Lt(0, renderer[1].camera_buffer.view_proj.proj.znear)
    /\ F32Lt(renderer[1].camera_buffer.view_proj.proj.znear,
             renderer[1].camera_buffer.view_proj.proj.zfar)
    /\ F32Lt(0, renderer[1].grid_buffer.fade_near)
    /\ F32Lt(renderer[1].grid_buffer.fade_near, renderer[1].grid_buffer.fade_far)

\* the uniforms were computed again at RADIUS_MAX
C29_Witness ==
  /\ local[1].log # << >>
  /\ local[1].uploaded = camera
  /\ camera.radius = RADIUS_MAX
  /\ renderer[1].grid_buffer.fade_far = F32Mul(RADIUS_MAX, F32FromInt(25))
  /\ renderer[1].camera_buffer.view_proj.proj.znear = F32Mul(RADIUS_MAX, Dec(1, 100))

\* the uniforms computed at RADIUS_MIN
RangesAtRadiusMin ==
  /\ local[1].uploaded.radius = RADIUS_MIN
  /\ renderer[1].camera_buffer.view_proj.proj.znear = Dec(1, 10000)
  /\ renderer[1].camera_buffer.view_proj.proj.zfar = F32FromInt(10000)

=============================================================================
